---- MODULE Spec2Model ----
(***************************************************************************)
(* Model of the eMRTD (ICAO 9303) reader of client/src/cmdhfemrtd.c:       *)
(* Basic Access Control, the secure-messaging channel with its send        *)
(* sequence counter, the chunked file read and the dump / info commands.   *)
(*                                                                         *)
(* The card is the environment: every APDU exchange is one step whose      *)
(* outcome (transport failure, bad status word, answer) and whose answer   *)
(* bytes are chosen by the card.  DES, 3DES and SHA-1 are symbolic: a      *)
(* ciphertext names its key and plaintext, a MAC names its key and the     *)
(* message it was computed over.                                           *)
(***************************************************************************)
EXTENDS Integers, Sequences, FiniteSets, TLC

VARIABLES
    op,             \* command being run: "none", "dump" (dumpHF_EMRTD), "info" (infoHF_EMRTD)
    BAC_available,  \* argument of dumpHF_EMRTD / infoHF_EMRTD
    stage,          \* position in dumpHF_EMRTD / infoHF_EMRTD
    pc,             \* next APDU exchange inside the current stage
    BAC,            \* local BAC of dumpHF_EMRTD / infoHF_EMRTD
    ssc,            \* local ssc[8]
    ks_enc,         \* local ks_enc[16]
    ks_mac,         \* local ks_mac[16]
    field,          \* RF field on (TRUE) or dropped by DropField (FALSE)
    ret,            \* return value of the command, "none" while it runs
    apdus,          \* history: the APDUs handed to the transceive layer, in order
    file,           \* file id of the file being selected / read
    filelist,       \* local filelist[] of dumpHF_EMRTD / infoHF_EMRTD
    idx,            \* loop index i over filelist
    rf,             \* locals and result of the running / last emrtd_read_file
    bac,            \* locals and result of the running / last emrtd_do_bac
    last,           \* what the last secure-messaging command did
    card,           \* the card in the field (the dump directory): the files it holds
    hash_algo,      \* local hash_algo of infoHF_EMRTD / infoHF_EMRTD_offline
    dg_hashes,      \* local dg_hashes[16][64]
    checks,         \* history: the files of the list the info loop tried to read and check
    keypress,       \* the keyboard: whether Enter was pressed, and what had been sent by then
    fnIn,           \* argument of the pure function under test
    fnOut           \* its result

vars == <<op, BAC_available, stage, pc, BAC, ssc, ks_enc, ks_mac, field, ret,
          apdus, file, filelist, idx, rf, bac, last, card, hash_algo, dg_hashes, checks,
          keypress, fnIn, fnOut>>

-----------------------------------------------------------------------------
(* Bounds of the model *)

\* the card answers GET CHALLENGE with one of RndIc(1) .. RndIc(MaxRndIc)
MaxRndIc == 1

\* the EF_COM of the card lists at most MaxListLen data-group tags
MaxListLen == 3

\* at most MaxFailures exchanges of one run fail (no answer, a status word other
\* than 9000, a wrong MAC)
MaxFailures == 3

\* byte strings of up to MaxRawLen bytes are handed to emrtd_lds_get_data_by_tag
MaxRawLen == 4

\* well-formed buffers hold up to MaxElems sibling elements
MaxElems == 3

\* the longest string of the check-digit harness built from a few characters
MaxMrzLen == 4

\* the longest input of the padding and MAC harnesses: up to a third block
MaxPadLen == 24

\* the card nonces RND.IC tried when emrtd_do_bac is checked on its own
MaxNonce == 3

\* the longest cryptogram, in blocks, of a DO'87' handed to emrtd_check_cc on its own
MaxCcBlocks == 31

-----------------------------------------------------------------------------
(* Bytes and byte strings, 0-based like the C buffers *)

Byte == 0..255

At(d, i) == d[i + 1]

Slice(d, from, n) == [k \in 1..n |-> d[from + k]]

Zeros(n) == [k \in 1..n |-> 0]

\* card memory read: n bytes at offset, bytes past the end of the image read 0
ImageRead(img, offset, n) ==
    [k \in 1..n |-> IF offset + k <= Len(img) THEN img[offset + k] ELSE 0]

EMRTD_MAX_FILE_SIZE == 35000

-----------------------------------------------------------------------------
(* emrtd_bump_ssc *)

RECURSIVE BumpFrom(_, _)
\* the loop body for i, i-1, ..., 1 (0-based); byte 0 is never visited
BumpFrom(s, i) ==
    IF i <= 0 THEN s
    ELSE IF At(s, i) = 255
         THEN BumpFrom([s EXCEPT ![i + 1] = 0], i - 1)
         ELSE [s EXCEPT ![i + 1] = s[i + 1] + 1]

emrtd_bump_ssc(s) == BumpFrom(s, 7)

\* big-endian (v + 1) mod 2^64 on 8 bytes: the counter the specification describes
RECURSIVE IncFrom(_, _)
IncFrom(s, i) ==
    IF i < 0 THEN s
    ELSE IF At(s, i) = 255
         THEN IncFrom([s EXCEPT ![i + 1] = 0], i - 1)
         ELSE [s EXCEPT ![i + 1] = s[i + 1] + 1]

Inc64(s) == IncFrom(s, 7)

-----------------------------------------------------------------------------
(* dg_table, emrtd_tag_to_dg, emrtd_fileid_to_dg *)

DG(tag, dgnum, fileid, filename, pace, eac, req, fastdump, parser, dumper) ==
    [tag |-> tag, dgnum |-> dgnum, fileid |-> fileid, filename |-> filename,
     pace |-> pace, eac |-> eac, req |-> req, fastdump |-> fastdump,
     parser |-> parser, dumper |-> dumper]

dg_table == <<
    DG(96,  0,  "011E", "EF_COM",          FALSE, FALSE, TRUE,  TRUE,  "emrtd_print_ef_com_info",  "NULL"),
    DG(97,  1,  "0101", "EF_DG1",          FALSE, FALSE, TRUE,  TRUE,  "emrtd_print_ef_dg1_info",  "NULL"),
    DG(117, 2,  "0102", "EF_DG2",          FALSE, FALSE, TRUE,  FALSE, "NULL", "emrtd_dump_ef_dg2"),
    DG(99,  3,  "0103", "EF_DG3",          FALSE, TRUE,  FALSE, FALSE, "NULL", "NULL"),
    DG(118, 4,  "0104", "EF_DG4",          FALSE, TRUE,  FALSE, FALSE, "NULL", "NULL"),
    DG(101, 5,  "0105", "EF_DG5",          FALSE, FALSE, FALSE, FALSE, "NULL", "emrtd_dump_ef_dg5"),
    DG(102, 6,  "0106", "EF_DG6",          FALSE, FALSE, FALSE, FALSE, "NULL", "NULL"),
    DG(103, 7,  "0107", "EF_DG7",          FALSE, FALSE, FALSE, FALSE, "NULL", "emrtd_dump_ef_dg7"),
    DG(104, 8,  "0108", "EF_DG8",          FALSE, FALSE, FALSE, TRUE,  "NULL", "NULL"),
    DG(105, 9,  "0109", "EF_DG9",          FALSE, FALSE, FALSE, TRUE,  "NULL", "NULL"),
    DG(106, 10, "010A", "EF_DG10",         FALSE, FALSE, FALSE, TRUE,  "NULL", "NULL"),
    DG(107, 11, "010B", "EF_DG11",         FALSE, FALSE, FALSE, TRUE,  "emrtd_print_ef_dg11_info", "NULL"),
    DG(108, 12, "010C", "EF_DG12",         FALSE, FALSE, FALSE, TRUE,  "emrtd_print_ef_dg12_info", "NULL"),
    DG(109, 13, "010D", "EF_DG13",         FALSE, FALSE, FALSE, TRUE,  "NULL", "NULL"),
    DG(110, 14, "010E", "EF_DG14",         FALSE, FALSE, FALSE, TRUE,  "NULL", "NULL"),
    DG(111, 15, "010F", "EF_DG15",         FALSE, FALSE, FALSE, TRUE,  "NULL", "NULL"),
    DG(112, 16, "0110", "EF_DG16",         FALSE, FALSE, FALSE, TRUE,  "NULL", "NULL"),
    DG(119, 0,  "011D", "EF_SOD",          FALSE, FALSE, FALSE, FALSE, "NULL", "emrtd_dump_ef_sod"),
    DG(255, 0,  "011C", "EF_CardAccess",   TRUE,  FALSE, TRUE,  TRUE,  "NULL", "NULL"),
    DG(255, 0,  "011D", "EF_CardSecurity", TRUE,  FALSE, FALSE, TRUE,  "NULL", "NULL") >>

\* emrtd_dg_enum, as 1-based indices into dg_table
EF_COM == 1
EF_DG1 == 2
EF_SOD == 18
EF_CardAccess == 19

NoDg == 0

RECURSIVE TagScan(_, _)
TagScan(tag, dgi) ==
    IF dgi > Len(dg_table) THEN NoDg
    ELSE IF dg_table[dgi].tag = tag THEN dgi
    ELSE TagScan(tag, dgi + 1)

\* mutant: the scan starts behind the first entry
emrtd_tag_to_dg_FromSecond(tag) == TagScan(tag, 2)

\* index of the first entry with this tag, NoDg for NULL
emrtd_tag_to_dg(tag) == TagScan(tag, 1)

RECURSIVE FileidScan(_, _)
FileidScan(file_id, dgi) ==
    IF dgi > Len(dg_table) THEN NoDg
    ELSE IF dg_table[dgi].fileid = file_id THEN dgi
    ELSE FileidScan(file_id, dgi + 1)

emrtd_fileid_to_dg(file_id) == FileidScan(file_id, 1)

-----------------------------------------------------------------------------
(* emrtd_calculate_check_digit: a string is the sequence of its character codes *)

\* mutant: the weights in another order
mrz_weight_371 == <<3, 7, 1>>

\* int mrz_weight[] = {7, 3, 1}
mrz_weight == <<7, 3, 1>>

\* value of the character d: 'A'..'Z', 'a'..'z', '<', else taken for a digit
MrzValue(d) ==
    IF 65 <= d /\ d <= 90 THEN d - 55
    ELSE IF 97 <= d /\ d <= 122 THEN d - 87
    ELSE IF d = 60 THEN 0
    ELSE d - 48

RECURSIVE CheckDigitFrom(_, _, _)
\* for (int i = 0; i < strlen(data); i++) cd += value * mrz_weight[i % 3]; return cd % 10
CheckDigitFrom(data, i, cd) ==
    IF i >= Len(data) THEN cd % 10
    ELSE CheckDigitFrom(data, i + 1, cd + MrzValue(At(data, i)) * mrz_weight[(i % 3) + 1])

emrtd_calculate_check_digit(data) == CheckDigitFrom(data, 0, 0)

-----------------------------------------------------------------------------
(* ASN.1 length helpers and the LDS tag reader *)

emrtd_get_asn1_data_length(datain, datainlen, offset) ==
    LET lenfield == At(datain, offset) IN
    IF lenfield <= 127 THEN lenfield
    ELSE IF lenfield = 128 THEN datainlen
    ELSE IF lenfield = 129 THEN At(datain, offset + 1)
    ELSE IF lenfield = 130 THEN At(datain, offset + 1) * 256 + At(datain, offset + 2)
    ELSE IF lenfield = 131
         THEN \* ((a << 16) | (b << 8)) | c: << binds tighter than |
              At(datain, offset + 1) * 65536 + At(datain, offset + 2) * 256
                  + At(datain, offset + 3)
    ELSE 0

emrtd_get_asn1_field_length(datain, datainlen, offset) ==
    LET lenfield == At(datain, offset) IN
    IF lenfield <= 128 THEN 1
    ELSE IF lenfield = 129 THEN 2
    ELSE IF lenfield = 130 THEN 3
    ELSE IF lenfield = 131 THEN 4
    ELSE 0

emrtd_lds_determine_tag_length(tag) == IF tag = 95 \/ tag = 127 THEN 2 ELSE 1

Max(a, b) == IF a > b THEN a ELSE b

\* the highest index the two length helpers read for the length field at offset
LenFieldTop(datain, offset) ==
    LET lenfield == At(datain, offset) IN
    offset + (IF lenfield = 129 THEN 1
              ELSE IF lenfield = 130 THEN 2
              ELSE IF lenfield = 131 THEN 3
              ELSE 0)

\* return false; top is the highest index of datain read so far (-1: none)
NotFound(top) == [found |-> FALSE, data |-> <<>>, top |-> top]

\* mutant: the element found first is returned, skiptagcount is not looked at
LdsSkipDone_Never(skipcounter, skiptagcount) == TRUE

\* if (skipcounter < skiptagcount) skipcounter += 1; else ...
LdsSkipDone(skipcounter, skiptagcount) == skipcounter >= skiptagcount

\* mutant: the scan goes on inside the value of an element
LdsNext_Descend(offset, e_idlen, e_datalen, e_fieldlen) == offset + e_idlen + e_fieldlen

\* offset += e_idlen + e_datalen + e_fieldlen
LdsNext(offset, e_idlen, e_datalen, e_fieldlen) == offset + e_idlen + e_datalen + e_fieldlen

RECURSIVE LdsScan(_, _, _, _, _, _, _, _, _)
\* the while loop of emrtd_lds_get_data_by_tag from offset on. datain is the memory
\* from the pointer on, of which the first datainlen bytes are the buffer
LdsScan(datain, datainlen, offset, skipcounter, top, tag1, tag2, twobytetag, skiptagcount) ==
    LET rest       == Slice(datain, offset, Len(datain) - offset)
        e_idlen    == emrtd_lds_determine_tag_length(At(datain, offset))
        e_datalen  == emrtd_get_asn1_data_length(rest, datainlen - offset, e_idlen)
        e_fieldlen == emrtd_get_asn1_field_length(rest, datainlen - offset, e_idlen)
        first      == At(datain, offset) = tag1
        match      == first /\ (~twobytetag \/ At(datain, offset + 1) = tag2)
        header     == Max(top, Max(offset + LenFieldTop(rest, e_idlen),
                                   IF first /\ twobytetag THEN offset + 1 ELSE offset))
        from       == offset + e_idlen + e_fieldlen
    IN  IF offset >= datainlen THEN NotFound(top)
        ELSE IF match /\ LdsSkipDone(skipcounter, skiptagcount)
             THEN IF datainlen > e_datalen
                  THEN [found |-> TRUE,
                        data  |-> Slice(datain, from, e_datalen),
                        top   |-> IF e_datalen > 0 THEN Max(header, from + e_datalen - 1)
                                  ELSE header]
                  ELSE NotFound(header)
        ELSE LdsScan(datain, datainlen, LdsNext(offset, e_idlen, e_datalen, e_fieldlen),
                     IF match THEN skipcounter + 1 ELSE skipcounter, header,
                     tag1, tag2, twobytetag, skiptagcount)

emrtd_lds_get_data_by_tag(datain, datainlen, tag1, tag2, twobytetag, entertoptag, skiptagcount) ==
    LET t == IF entertoptag THEN emrtd_lds_determine_tag_length(At(datain, 0)) ELSE 0
        offset == IF entertoptag
                  THEN t + emrtd_get_asn1_field_length(datain, datainlen, t)
                  ELSE 0
    IN  LdsScan(datain, datainlen, offset, 0, IF entertoptag THEN t ELSE -1,
                tag1, tag2, twobytetag, skiptagcount)

-----------------------------------------------------------------------------
(* hashalg_table and the hash list of EF_SOD *)

HashAlg(name, hasher, hashlen, descriptorlen, descriptor) ==
    [name |-> name, hasher |-> hasher, hashlen |-> hashlen,
     descriptorlen |-> descriptorlen, descriptor |-> descriptor]

\* hash_algo is a 0-based index into this table, -1 for none
hashalg_table == <<
    HashAlg("SHA-1",   "sha1hash",   20, 7,  <<6, 5, 43, 14, 3, 2, 26>>),
    HashAlg("SHA-256", "sha256hash", 32, 11, <<6, 9, 96, 134, 72, 1, 101, 3, 4, 2, 1>>),
    HashAlg("SHA-512", "sha512hash", 64, 11, <<6, 9, 96, 134, 72, 1, 101, 3, 4, 2, 3>>) >>

RECURSIVE Mix(_, _, _)
\* a checksum over the bytes lo..hi of data, every byte and its place counting
Mix(data, lo, hi) ==
    IF lo > hi THEN 7
    ELSE IF lo = hi THEN (data[lo] + 13) % 251
    ELSE LET mid == (lo + hi) \div 2
         IN  (Mix(data, lo, mid) * 31 + Mix(data, mid + 1, hi) * 3 + 1) % 251

\* hashalg_table[hashi].hasher(data, datalen, hash_out): the digests are symbolic,
\* hashlen bytes that depend on the algorithm and on every byte of the data
hasher(hashi, data) ==
    [k \in 1..hashalg_table[hashi + 1].hashlen |->
        (Mix(data, 1, Len(data)) + hashi + k) % 256]

\* a buffer inside its zero-initialised array (uint8_t x[...] = { 0x00 })
InZeros(buf) == buf \o Zeros(8)

\* emrtd_lds_get_data_by_tag on the first len bytes of buf, one-byte tag
LdsIn(buf, len, tag, entertoptag, skiptagcount) ==
    emrtd_lds_get_data_by_tag(InZeros(buf), len, tag, 0, FALSE, entertoptag, skiptagcount)

\* PM3_SUCCESS is 0, and so is false: a function that returns false where its caller
\* tests for PM3_SUCCESS has succeeded for the caller
IsPm3Success(res) == res \in {"PM3_SUCCESS", "false"}

\* the lookups of emrtd_ef_sod_extract_signatures, each in the value of the one
\* before: top, signedData, eMRTDSignature container, eMRTDSignature, its text
SodPath == <<
    [tag |-> 48,  entertoptag |-> TRUE],
    [tag |-> 160, entertoptag |-> FALSE],
    [tag |-> 48,  entertoptag |-> TRUE],
    [tag |-> 160, entertoptag |-> FALSE],
    [tag |-> 4,   entertoptag |-> FALSE] >>

RECURSIVE LdsChain(_, _)
\* if (!emrtd_lds_get_data_by_tag(...)) return false, for every lookup of steps:
\* r is what the lookup before came to
LdsChain(r, steps) ==
    IF ~r.found \/ steps = <<>> THEN r
    ELSE LdsChain(LdsIn(r.data, Len(r.data), Head(steps).tag, Head(steps).entertoptag, 0),
                  Tail(steps))

\* return false; or memcpy(dataout, emrtdsigtext, emrtdsigtextlen), return PM3_SUCCESS
SignaturesOf(r) ==
    IF r.found THEN [res |-> "PM3_SUCCESS", dataout |-> r.data]
    ELSE [res |-> "false", dataout |-> <<>>]

emrtd_ef_sod_extract_signatures(data, datalen) ==
    SignaturesOf(LdsChain([found |-> TRUE, data |-> SubSeq(data, 1, datalen)], SodPath))

RECURSIVE HashAlgScan(_, _)
\* for (hashi = 0; hashalg_table[hashi].name != NULL; hashi++): length, then bytes
HashAlgScan(hashalgoset, hashi) ==
    IF hashi >= Len(hashalg_table) THEN -1
    ELSE IF hashalg_table[hashi + 1].descriptorlen = Len(hashalgoset)
            /\ hashalg_table[hashi + 1].descriptor = hashalgoset
         THEN hashi
         ELSE HashAlgScan(hashalgoset, hashi + 1)

\* mutant: a trailing 05 00 is kept
StripNull_Keep(set) == set

\* hashalgoset without a trailing 05 00
StripNull(set) ==
    IF Len(set) >= 2 /\ set[Len(set) - 1] = 5 /\ set[Len(set)] = 0
    THEN SubSeq(set, 1, Len(set) - 2) ELSE set

\* *hashalgo once the lookup of the first element came to r.
\* (With fewer than 2 bytes the code looks at bytes before hashalgoset; whatever they
\* hold, no descriptor has the length that results.)
HashAlgoOf(r) ==
    IF ~r.found \/ Len(r.data) < 2 THEN -1 ELSE HashAlgScan(StripNull(r.data), 0)

\* *hashalgo after emrtd_parse_ef_sod_hash_algo: -1, or the index of the table entry
\* whose descriptor is the first element of data without a trailing 05 00
emrtd_parse_ef_sod_hash_algo(data, datalen) == HashAlgoOf(LdsIn(data, datalen, 48, TRUE, 0))

\* memcpy(hashes + (hashidstr[0] * 64), hash, hashlen) into dg_hashes[16][64].
\* A row of the table is the bytes written to it so far; the bytes behind them are
\* not initialised
HashesPut(hashes, id, hash) ==
    IF id \in DOMAIN hashes
    THEN [hashes EXCEPT ![id] = hash \o SubSeq(@, Len(hash) + 1, Len(@))]
    ELSE hashes

\* memcpy(dataout, data, len) into a local array that holds buf
Overwrite(buf, data) == [k \in 1..Len(buf) |-> IF k <= Len(data) THEN data[k] ELSE buf[k]]

\* the locals hashidstr, hash and hashlen of emrtd_parse_ef_sod_hashes at entry, and
\* the caller's table; writes: where each memcpy into the table began and how long
\* it was
HashLocals(hashes) ==
    [hashidstr |-> Zeros(4), hash |-> Zeros(64), hashlen |-> 0, hashes |-> hashes,
     writes |-> <<>>]

\* the locals after the lookups of 02 (idr) and 04 (hr) in one element: a lookup
\* that finds nothing leaves what the element before left
HashElemRead(st, idr, hr) ==
    [hashidstr |-> IF idr.found THEN Overwrite(st.hashidstr, idr.data) ELSE st.hashidstr,
     hash      |-> IF hr.found THEN Overwrite(st.hash, hr.data) ELSE st.hash,
     hashlen   |-> IF hr.found THEN Len(hr.data) ELSE st.hashlen,
     hashes    |-> st.hashes,
     writes    |-> st.writes]

\* if (hashlen <= 64) memcpy(hashes + (hashidstr[0] * 64), hash, hashlen)
HashElemPut(st) ==
    IF st.hashlen <= 64
    THEN [st EXCEPT !.hashes = HashesPut(@, st.hashidstr[1], SubSeq(st.hash, 1, st.hashlen)),
                    !.writes = Append(@, [at |-> st.hashidstr[1] * 64, len |-> st.hashlen])]
    ELSE st

\* switch (hashlist[offset]): case 0x30 on the e_datalen bytes inner of the element
HashElem(st, tag, inner, e_datalen) ==
    IF tag = 48
    THEN HashElemPut(HashElemRead(st, LdsIn(inner, e_datalen, 2, FALSE, 0),
                                  LdsIn(inner, e_datalen, 4, FALSE, 0)))
    ELSE st

\* mutant: the byte of the element's ID is not counted
HashNext_NoId(offset, e_datalen, e_fieldlen) == offset + e_datalen + e_fieldlen

\* + 1 for length of ID: offset += 1 + e_datalen + e_fieldlen
HashNext(offset, e_datalen, e_fieldlen) == offset + 1 + e_datalen + e_fieldlen

RECURSIVE HashListScan(_, _, _)
\* the loop body once the two lengths of the element at offset are known
HashListStep(hashlist, offset, e_datalen, e_fieldlen, st) ==
    HashListScan(hashlist, HashNext(offset, e_datalen, e_fieldlen),
                 HashElem(st, At(hashlist, offset),
                          ImageRead(hashlist, offset + e_fieldlen + 1, e_datalen), e_datalen))

\* the lengths of the element in rest = hashlist + offset, left = hashlistlen - offset
HashListAt(hashlist, offset, rest, left, st) ==
    HashListStep(hashlist, offset, emrtd_get_asn1_data_length(rest, left, 1),
                 emrtd_get_asn1_field_length(rest, left, 1), st)

\* while (offset < hashlistlen): every element 30 of the hash list puts its hash (04)
\* under its id (02). hashlist sits in a zero-initialised array
HashListScan(hashlist, offset, st) ==
    IF offset >= Len(hashlist) THEN st
    ELSE HashListAt(hashlist, offset,
                    ImageRead(hashlist, offset, Len(hashlist) - offset + 8),
                    Len(hashlist) - offset, st)

\* return PM3_SUCCESS after the loop, which left st
HashListDone(algo, st) ==
    [res |-> "PM3_SUCCESS", hashalgo |-> algo, hashes |-> st.hashes, writes |-> st.writes]

\* emrtd_parse_ef_sod_hashes from the lookup of the hash list on
HashListOf(algo, hashlist, hashes) ==
    IF ~hashlist.found
    THEN [res |-> "false", hashes |-> hashes, hashalgo |-> algo, writes |-> <<>>]
    ELSE HashListDone(algo, HashListScan(hashlist.data, 0, HashLocals(hashes)))

\* emrtd_parse_ef_sod_hashes from the result sig of the extraction on
HashesOf(sig, hashes, hashalgo) ==
    IF ~IsPm3Success(sig.res)
    THEN [res |-> "false", hashes |-> hashes, hashalgo |-> hashalgo, writes |-> <<>>]
    ELSE HashListOf(emrtd_parse_ef_sod_hash_algo(sig.dataout, Len(sig.dataout)),
                    LdsIn(sig.dataout, Len(sig.dataout), 48, TRUE, 1), hashes)

\* res, *hashalgo and the hash table after emrtd_parse_ef_sod_hashes; hashes and
\* hashalgo are what the caller's variables held before
emrtd_parse_ef_sod_hashes(data, datalen, hashes, hashalgo) ==
    HashesOf(emrtd_ef_sod_extract_signatures(data, datalen), hashes, hashalgo)

-----------------------------------------------------------------------------
(* emrtd_print_ef_dg11_info and emrtd_print_ef_dg12_info *)

\* switch (taglist[i + 1]) of emrtd_print_ef_dg11_info: what is done with tagdata
Dg11Case(tag2) ==
    CASE tag2 = 14  -> "emrtd_print_name"
      [] tag2 = 15  -> "emrtd_print_name"
      [] tag2 = 16  -> "Personal Number"
      [] tag2 = 17  -> "Place of Birth"
      [] tag2 = 66  -> "Permanent Address"
      [] tag2 = 18  -> "Telephone"
      [] tag2 = 19  -> "Profession"
      [] tag2 = 20  -> "Title"
      [] tag2 = 21  -> "Personal Summary"
      [] tag2 = 22  -> "saveFile ProofOfCitizenship"
      [] tag2 = 23  -> "Other valid TDs nums"
      [] tag2 = 24  -> "Custody Information"
      [] tag2 = 43  -> "emrtd_print_dob"
      [] OTHER      -> "Unknown Field"

\* switch (taglist[i + 1]) of emrtd_print_ef_dg12_info
Dg12Case(tag2) ==
    CASE tag2 = 25  -> "Issuing Authority"
      [] tag2 = 38  -> "emrtd_print_issuance"
      [] tag2 = 27  -> "Endorsements & Observations"
      [] tag2 = 28  -> "Tax/Exit Requirements"
      [] tag2 = 29  -> "saveFile FrontOfDocument"
      [] tag2 = 30  -> "saveFile BackOfDocument"
      [] tag2 = 85  -> "emrtd_print_personalization_timestamp"
      [] tag2 = 86  -> "Serial of Personalization System"
      [] tag2 = 133 -> "emrtd_print_unknown_timestamp_5f85"
      [] OTHER      -> "Unknown Field"

\* one line printed or one file saved: the tag of the list it is for, what is done,
\* and the tagdatalen bytes of tagdata it is done with
Field(tag, what, value) == [tag |-> tag, what |-> what, value |-> value]

\* what is done for the tag at taglist[i] in file dg ("dg11", "dg12")
FieldFor(dg, taglist, i, value) ==
    IF At(taglist, i) = 95
    THEN Field(<<95, At(taglist, i + 1)>>,
               IF dg = "dg11" THEN Dg11Case(At(taglist, i + 1))
               ELSE Dg12Case(At(taglist, i + 1)),
               value)
    ELSE Field(<<At(taglist, i)>>, "Unknown Field", value)

\* uint8_t tagdata[1000] = { 0x00 }; size_t tagdatalen = 0
NoTagData == [data |-> <<>>, len |-> 0]

\* tagdata and tagdatalen after a lookup whose result is not looked at: the lookup
\* writes them only when it finds the element
TagDataAfter(td, r) == IF r.found THEN [data |-> r.data, len |-> Len(r.data)] ELSE td

RECURSIVE TagListLoop(_, _, _, _, _, _, _, _)
\* the loop body after the lookup left td: if (tagdatalen == 0) continue; the switch;
\* i += 1 for a two-byte tag; then the i++ of the for
TagListBody(dg, data, datalen, taglist, taglistlen, i, td, out) ==
    IF td.len = 0
    THEN TagListLoop(dg, data, datalen, taglist, taglistlen, i + 1, td, out)
    ELSE TagListLoop(dg, data, datalen, taglist, taglistlen,
                     IF At(taglist, i) = 95 THEN i + 2 ELSE i + 1, td,
                     Append(out, FieldFor(dg, taglist, i, td.data)))

\* for (int i = 0; i < taglistlen; i++): taglist sits in a zero-initialised array
TagListLoop(dg, data, datalen, taglist, taglistlen, i, td, out) ==
    IF i >= taglistlen THEN out
    ELSE TagListBody(dg, data, datalen, taglist, taglistlen, i,
                     TagDataAfter(td, emrtd_lds_get_data_by_tag(InZeros(data), datalen,
                                          At(taglist, i), At(taglist, i + 1),
                                          At(taglist, i) = 95, TRUE, 0)),
                     out)

\* the function from the lookup r of the tag list 5C on
TagListOf(dg, data, datalen, r) ==
    IF ~r.found THEN [res |-> "PM3_ESOFT", out |-> <<>>]
    ELSE [res |-> "PM3_SUCCESS",
          out |-> TagListLoop(dg, data, datalen, InZeros(r.data), Len(r.data), 0,
                              NoTagData, <<>>)]

emrtd_print_ef_dg11_info(data, datalen) ==
    TagListOf("dg11", data, datalen, LdsIn(data, datalen, 92, TRUE, 0))

emrtd_print_ef_dg12_info(data, datalen) ==
    TagListOf("dg12", data, datalen, LdsIn(data, datalen, 92, TRUE, 0))

-----------------------------------------------------------------------------
(* Cryptographic primitives, symbolic *)

KENC_type == "KENC"
KMAC_type == "KMAC"

\* ks_enc[16] = { 0x00 }, ks_mac[16] = { 0x00 }: a key nothing was derived into
ZeroKey == [type |-> "zero", seed |-> <<>>]

\* a key the reader never derives (held by a card personalised with another MRZ)
ForeignKey == [type |-> "foreign", seed |-> <<>>]

\* SHA-1 of seed || type with parity set: named by what it was derived from
emrtd_deskey(seed, type) == [type |-> type, seed |-> seed]

\* sha1hash(kmrz) of the MRZ data given on the command line
KseedMrz == <<77, 82, 90>>

des3_encrypt_cbc(key, input) == [key |-> key, pt |-> input]

\* decrypting under another key yields other bytes
des3_decrypt_cbc(key, ct) ==
    IF ct.key = key THEN ct.pt ELSE [k \in 1..Len(ct.pt) |-> 255 - ct.pt[k]]

NoCt == [key |-> ZeroKey, pt |-> <<>>]

\* a data object of a secure-messaging APDU: tag, length byte, clear value bytes
\* and, in a DO'87', the cryptogram that follows the padding indicator
DO(tag, len, val, ct) == [tag |-> tag, len |-> len, val |-> val, ct |-> ct]

\* the input of a MAC: leading clear bytes and the data objects after them
MacInput(pre, dos) == [pre |-> pre, dos |-> dos]

\* ISO 9797-1 algorithm 3 over input: named by its key and its input
retail_mac(key, input) == [key |-> key, msg |-> input]

NoMac == [key |-> ZeroKey, msg |-> MacInput(<<>>, <<>>)]

\* mutant: nothing is added to an input that fills its last block
pad_block_IfNeeded(input) ==
    IF Len(input) % 8 = 0 THEN input
    ELSE input \o [k \in 1..(8 - (Len(input) % 8)) |-> IF k = 1 THEN 128 ELSE 0]

\* pad_block: 0x80 and then zeros up to the next multiple of 8, always added
pad_block(input) ==
    LET to_pad == 8 - (Len(input) % 8)
    IN  input \o [k \in 1..to_pad |-> IF k = 1 THEN 128 ELSE 0]

RECURSIVE BXor(_, _)
BXor(a, b) ==
    IF a = 0 THEN b
    ELSE IF b = 0 THEN a
    ELSE ((a + b) % 2) + 2 * BXor(a \div 2, b \div 2)

\* rng(): memset(dataout, 0x00, length)
rng(length) == Zeros(length)

\* retail_mac with its DES calls spelled out. Single DES is an abstract block function:
\* a block is its 8 bytes, or the term a DES call or an XOR builds from blocks
Block(v) == [f |-> "bytes", v |-> v]

des_encrypt_ecb(key, in) == [f |-> "E", key |-> key, in |-> in]

des_decrypt_ecb(key, in) == [f |-> "D", key |-> key, in |-> in]

\* intermediate[x] = intermediate[x] ^ block[x], x = 0..7
BlockXor(a, b) ==
    IF a.f = "bytes" /\ b.f = "bytes"
    THEN Block([x \in 1..8 |-> BXor(a.v[x], b.v[x])])
    ELSE [f |-> "xor", a |-> a, b |-> b]

\* memcpy(k0, key, 8)
k0(key) == Slice(key, 0, 8)

\* mutant: both DES keys are the first half of the key
k1_FirstHalf(key) == Slice(key, 0, 8)

\* memcpy(k1, key + 8, 8)
k1(key) == Slice(key, 8, 8)

RECURSIVE MacChain(_, _, _, _, _)
\* for (int i = 0; i < (blocksize / 8); i++): block, XOR, des_encrypt_ecb with k0
MacChain(key0, message, blocksize, i, intermediate) ==
    IF i >= blocksize \div 8 THEN intermediate
    ELSE MacChain(key0, message, blocksize, i + 1,
                  des_encrypt_ecb(key0, BlockXor(intermediate,
                                                 Block(Slice(message, i * 8, 8)))))

\* retail_mac once the keys are populated and the message is padded
MacOf(key0, key1, message) ==
    des_encrypt_ecb(key0,
        des_decrypt_ecb(key1, MacChain(key0, message, Len(message), 0, Block(Zeros(8)))))

retail_mac_des(key, input) == MacOf(k0(key), k1(key), pad_block(input))

-----------------------------------------------------------------------------
(* The card *)

\* the challenges a card may return
RndIc(i) == [k \in 1..8 |-> (i * (16 + k)) % 256]

\* K.ICC of the card
KIcc == [k \in 1..16 |-> 160 + k]

\* the k-th tag an EF_COM lists: DG1 (fast), 0x42 (not in dg_table), DG2 (dump
\* only, 147 bytes), DG3 (EAC), and so on again
ListTag(k) == <<97, 66, 117, 99>>[((k - 1) % 4) + 1]

\* the k-th tag of another EF_COM: DG1, DG2, DG11 (fast), 0x42, and so on again
ListTagB(k) == <<97, 117, 107, 66>>[((k - 1) % 4) + 1]

\* EF_COM with tag list l: 60 L 5C n <tags>
EfComOf(l) == <<96, 2 + Len(l), 92, Len(l)>> \o l

\* an EF_COM without a tag list: 60 03 5F 01 00
EfComNoList == <<96, 3, 95, 1, 0>>

EfComImages ==
    {EfComOf([k \in 1..n |-> ListTag(k)]) : n \in 0..MaxListLen}
        \cup {EfComOf([k \in 1..MaxListLen |-> ListTagB(k)])}
        \cup {EfComNoList}

\* a file of 147 bytes, 75 81 90 and 144 value bytes: read in chunks of 118 and 25
LongFile == <<117, 129, 144>> \o [k \in 1..144 |-> k % 256]

Dg1File == <<97, 3, 1, 2, 3>>

Dg11File == <<107, 3, 4, 5, 6>>

\* tag, length (short form below 128, else 81 xx), value
Tlv(tag, val) ==
    <<tag>> \o (IF Len(val) < 128 THEN <<Len(val)>> ELSE <<129, Len(val)>>) \o val

\* one element of the hash list: 30 { 02 01 dgnum, 04 len hash }
HashEntry(dgnum, hash) == Tlv(48, <<2, 1, dgnum>> \o Tlv(4, hash))

\* an EF_SOD: 77 { 30 { A0 { 30 { version, 30 { A0 { 04 { 30 { version,
\* 30 { algorithm oid, 05 00 }, 30 { hash list } } } } } } } } }
SodOf(oid, entries) ==
    LET lso        == Tlv(48, <<2, 1, 0>> \o Tlv(48, oid \o <<5, 0>>) \o Tlv(48, entries))
        container  == Tlv(48, Tlv(160, Tlv(4, lso)))
        signeddata == Tlv(48, <<2, 1, 3>> \o container)
    IN  Tlv(119, Tlv(48, Tlv(160, signeddata)))

\* the hash list of a card whose DG1 hash is h1: DG1, DG2 and DG11 under SHA-1
SodEntries(h1) ==
    HashEntry(1, h1) \o HashEntry(2, hasher(0, LongFile)) \o HashEntry(11, hasher(0, Dg11File))

\* the signed EF_SOD files a card may hold: the hashes of its files under SHA-1; the
\* same with a DG1 hash that is not the hash of its DG1; and the same under an
\* algorithm that is not in hashalg_table
SodKinds ==
    {[oid |-> <<6, 5, 43, 14, 3, 2, 26>>, h1 |-> hasher(0, Dg1File)],
     [oid |-> <<6, 5, 43, 14, 3, 2, 26>>, h1 |-> hasher(0, <<>>)],
     [oid |-> <<6, 5, 43, 14, 3, 2, 27>>, h1 |-> hasher(0, Dg1File)]}

SodImage(k) == SodOf(k.oid, SodEntries(k.h1))

\* and an EF_SOD without the signed data
SodImages == {SodImage(k) : k \in SodKinds} \cup {<<119, 2, 48, 0>>}

\* the bytes of the file the card has selected
CardImage(fid, efcom, sod) ==
    CASE fid = "011E" -> efcom
      [] fid = "0101" -> Dg1File
      [] fid = "0102" -> LongFile
      [] fid = "010B" -> Dg11File
      [] fid = "011D" -> sod
      [] fid = "011C" -> <<49, 1, 0>>
      [] OTHER        -> <<0, 0>>

\* the card may still fail an exchange of this run
MayFail == Cardinality({i \in DOMAIN apdus : apdus[i].res # "ok"}) < MaxFailures

\* what an exchange can come to: an answer with status word 9000, an answer with
\* another status word, or no answer (ExchangeAPDU14a / exchange_14b_apdu fail)
Outcomes == IF MayFail THEN {"ok", "sw", "transport"} ELSE {"ok"}

-----------------------------------------------------------------------------
(* emrtd_check_cc and the secure-messaging commands *)

NoRapdu == [dos |-> <<>>, mac |-> NoMac]

\* the data objects emrtd_check_cc puts under the MAC: a leading DO'87', then a DO'99'
CheckedDos(rapdu) ==
    LET d87 == IF Len(rapdu.dos) >= 1 /\ rapdu.dos[1].tag = 135
               THEN <<rapdu.dos[1]>> ELSE <<>>
        rest == SubSeq(rapdu.dos, Len(d87) + 1, Len(rapdu.dos))
        d99 == IF Len(rest) >= 1 /\ rest[1].tag = 153 THEN <<rest[1]>> ELSE <<>>
    IN  d87 \o d99

\* mutant: the counter is bumped only when the MAC verifies
emrtd_check_cc_BumpOnSuccess(s, key, rapdu) ==
    LET s2 == emrtd_bump_ssc(s)
        cc == retail_mac(key, MacInput(s2, CheckedDos(rapdu)))
    IN  [ssc |-> IF cc = rapdu.mac THEN s2 ELSE s, ok |-> cc = rapdu.mac]

\* bumps the counter, then compares the MAC over ssc || DO'87' || DO'99' with the
\* last 8 bytes of the response
emrtd_check_cc(s, key, rapdu) ==
    LET s2 == emrtd_bump_ssc(s)
        cc == retail_mac(key, MacInput(s2, CheckedDos(rapdu)))
    IN  [ssc |-> s2, ok |-> cc = rapdu.mac]

\* mutant: the command is MACed with the counter as it stands (use, then increment)
CommandSsc_UseFirst(s) == s

\* the counter value a secure command is MACed with: bumped first, then used
CommandSsc(s) == emrtd_bump_ssc(s)

\* mutant: a failed command restores the counter it started with
SecureExchange_Rollback(s, kmac, head, dobj, outcome, rapdu) ==
    LET s1 == CommandSsc(s)
        cc == retail_mac(kmac, MacInput(s1 \o head, <<dobj>>))
        chk == emrtd_check_cc(s1, kmac, rapdu)
    IN  IF outcome # "ok"
        THEN [ok |-> FALSE, ssc |-> s, cmd_ssc |-> s1, cmd_mac |-> cc,
              exchanged |-> FALSE, resp_ssc |-> <<>>, rapdu |-> NoRapdu]
        ELSE [ok |-> chk.ok, ssc |-> IF chk.ok THEN chk.ssc ELSE s, cmd_ssc |-> s1,
              cmd_mac |-> cc, exchanged |-> TRUE, resp_ssc |-> chk.ssc, rapdu |-> rapdu]

\* bump, MAC the command, exchange, check the response MAC.
\* head: the padded command header; dobj: DO'87' (SELECT) or DO'97' (READ BINARY)
SecureExchange(s, kmac, head, dobj, outcome, rapdu) ==
    LET s1 == CommandSsc(s)
        cc == retail_mac(kmac, MacInput(s1 \o head, <<dobj>>))
        chk == emrtd_check_cc(s1, kmac, rapdu)
    IN  IF outcome # "ok"
        THEN [ok |-> FALSE, ssc |-> s1, cmd_ssc |-> s1, cmd_mac |-> cc,
              exchanged |-> FALSE, resp_ssc |-> <<>>, rapdu |-> NoRapdu]
        ELSE [ok |-> chk.ok, ssc |-> chk.ssc, cmd_ssc |-> s1, cmd_mac |-> cc,
              exchanged |-> TRUE, resp_ssc |-> chk.ssc, rapdu |-> rapdu]

\* _emrtd_convert_filename: "011E" -> 01 1E
FileIdBytes(fid) ==
    CASE fid = "011E" -> <<1, 30>>
      [] fid = "011D" -> <<1, 29>>
      [] fid = "011C" -> <<1, 28>>
      [] fid = "0101" -> <<1, 1>>
      [] fid = "0102" -> <<1, 2>>
      [] fid = "0103" -> <<1, 3>>
      [] fid = "010B" -> <<1, 11>>
      [] OTHER        -> <<0, 0>>

emrtd_secure_select_file(kenc, kmac, s, fid, outcome, rapdu) ==
    LET cmd  == pad_block(<<12, 164, 2, 12>>)
        data == pad_block(FileIdBytes(fid))
        do87 == DO(135, 9, <<1>>, des3_encrypt_cbc(kenc, data))
    IN  SecureExchange(s, kmac, cmd, do87, outcome, rapdu)

_emrtd_secure_read_binary(kmac, s, offset, bytes_to_read, outcome, rapdu) ==
    LET cmd  == pad_block(<<12, 176, (offset \div 256) % 256, offset % 256>>)
        do97 == DO(151, 1, <<bytes_to_read % 256>>, NoCt)
    IN  SecureExchange(s, kmac, cmd, do97, outcome, rapdu)

\* the bytes des3_decrypt_cbc(response + 3, response[1] - 1) yields, cut to n
DecryptBody(kenc, rapdu, n) ==
    IF Len(rapdu.dos) >= 1 /\ rapdu.dos[1].tag = 135
    THEN LET temp == des3_decrypt_cbc(kenc, rapdu.dos[1].ct)
         IN  [k \in 1..n |-> IF k <= Len(temp) THEN temp[k] ELSE 0]
    ELSE Zeros(n)

\* mutant: the answer is decrypted whether or not its MAC verified
DecryptAfter_Unchecked(r, kenc, bytes_to_read) ==
    IF r.exchanged
    THEN [ok |-> TRUE,  decrypted |-> TRUE,  dataout |-> DecryptBody(kenc, r.rapdu, bytes_to_read)]
    ELSE [ok |-> FALSE, decrypted |-> FALSE, dataout |-> <<>>]

\* the output of _emrtd_secure_read_binary_decrypt after the secure read r
DecryptAfter(r, kenc, bytes_to_read) ==
    IF r.ok
    THEN [ok |-> TRUE,  decrypted |-> TRUE,  dataout |-> DecryptBody(kenc, r.rapdu, bytes_to_read)]
    ELSE [ok |-> FALSE, decrypted |-> FALSE, dataout |-> <<>>]

_emrtd_secure_read_binary_decrypt(kenc, kmac, s, offset, bytes_to_read, outcome, rapdu) ==
    LET r == _emrtd_secure_read_binary(kmac, s, offset, bytes_to_read, outcome, rapdu)
        d == DecryptAfter(r, kenc, bytes_to_read)
    IN  [ok |-> d.ok, ssc |-> r.ssc, sm |-> r, decrypted |-> d.decrypted, dataout |-> d.dataout]

-----------------------------------------------------------------------------
(* emrtd_read_file *)

NoRead == [secure |-> FALSE, offset |-> 0, toread |-> 0, readlen |-> 0,
           response |-> <<>>, result |-> "none", reads |-> 0]

\* the locals at entry: toread = 4, offset = 0
ReadStart(secure) == [secure |-> secure, offset |-> 0, toread |-> 4, readlen |-> 0,
                      response |-> <<>>, result |-> "running", reads |-> 0]

Min(a, b) == IF a < b THEN a ELSE b

\* response[] of emrtd_read_file is a local array that is not initialised: after the
\* 4-byte probe the byte response[4] holds one of these
Uninit == {0, 16}

\* the rest of emrtd_read_file after one READ BINARY came back (ok, data), up to the
\* next READ BINARY or the return. junk: what response[4] holds after the probe
ReadContinue(r, probe, ok, data, junk) ==
    IF ~ok THEN [r EXCEPT !.result = "false", !.reads = @ + 1]
    ELSE LET response == IF probe THEN data ELSE r.response \o data
             resplen  == Len(response)
             mem      == response \o <<junk>>
             datalen  == emrtd_get_asn1_data_length(mem, resplen, 1)
             readlen  == IF probe
                         THEN datalen - (3 - emrtd_get_asn1_field_length(mem, resplen, 1))
                         ELSE r.readlen - r.toread
             offset   == IF probe THEN 4 ELSE r.offset + r.toread
         IN  [r EXCEPT !.response = response, !.readlen = readlen, !.offset = offset,
                       !.toread = IF readlen > 0 THEN Min(readlen, 118) ELSE r.toread,
                       !.result = IF readlen > 0 THEN "running" ELSE "true",
                       !.reads = @ + 1]

\* mutant: what was read before the failure is handed to the caller
ReadFileReturn_Partial(r, dataout, dataoutlen) ==
    [ret |-> r.result = "true",
     dataout |-> r.response \o SubSeq(dataout, Len(r.response) + 1, Len(dataout)),
     dataoutlen |-> Len(r.response)]

\* the return of emrtd_read_file: memcpy(dataout, &response, resplen) and
\* *dataoutlen = resplen before return true, nothing before return false
ReadFileReturn(r, dataout, dataoutlen) ==
    IF r.result = "true"
    THEN [ret |-> TRUE,
          dataout |-> r.response \o SubSeq(dataout, Len(r.response) + 1, Len(dataout)),
          dataoutlen |-> Len(r.response)]
    ELSE [ret |-> FALSE, dataout |-> dataout, dataoutlen |-> dataoutlen]

-----------------------------------------------------------------------------
(* emrtd_do_bac *)

NoBac == [state |-> "none", rnd_ic |-> <<>>, rnd_ifd |-> <<>>, dec_output |-> <<>>,
          pre |-> [ssc |-> <<>>, ks_enc |-> ZeroKey, ks_mac |-> ZeroKey]]

\* the locals at entry: rnd_ic[8] = { 0x00 }, rng(8, rnd_ifd); pre is what the
\* caller's ssc, ks_enc and ks_mac hold at the call
BacStart(s, kenc, kmac) ==
    [state |-> "running", rnd_ic |-> Zeros(8), rnd_ifd |-> rng(8), dec_output |-> <<>>,
     pre |-> [ssc |-> s, ks_enc |-> kenc, ks_mac |-> kmac]]

\* EXTERNAL AUTHENTICATE data: E.IFD || M.IFD
BacCommand(kenc, kmac, rnd_ifd, rnd_ic, k_ifd) ==
    LET S     == rnd_ifd \o rnd_ic \o k_ifd
        e_ifd == des3_encrypt_cbc(kenc, S)
        m_ifd == retail_mac(kmac, MacInput(<<>>, <<DO(0, 32, <<>>, e_ifd)>>))
    IN  [e |-> e_ifd, m |-> m_ifd]

\* mutant: the first 8 bytes are compared
ChallengeMatches_First8(rnd_ifd, dec_output) == Slice(dec_output, 0, 8) = rnd_ifd

\* memcmp(rnd_ifd, dec_output + 8, 8) == 0
ChallengeMatches(rnd_ifd, dec_output) == Slice(dec_output, 8, 8) = rnd_ifd

\* mutant: ssc is seeded from the first 4 bytes of the nonces
BacFinish_SeedHigh(cur, kenc, rnd_ifd, rnd_ic, k_ifd, resp) ==
    LET dec_output == des3_decrypt_cbc(kenc, resp.ct)
        k_icc == Slice(dec_output, 16, 16)
        kseed == [x \in 1..16 |-> BXor(k_ifd[x], k_icc[x])]
    IN  IF ~ChallengeMatches(rnd_ifd, dec_output)
        THEN [ok |-> FALSE, ssc |-> cur.ssc, ks_enc |-> cur.ks_enc, ks_mac |-> cur.ks_mac,
              dec_output |-> dec_output]
        ELSE [ok |-> TRUE,
              ssc |-> Slice(rnd_ic, 0, 4) \o Slice(rnd_ifd, 0, 4),
              ks_enc |-> emrtd_deskey(kseed, KENC_type),
              ks_mac |-> emrtd_deskey(kseed, KMAC_type),
              dec_output |-> dec_output]

\* mutant: ssc is seeded before the challenge is compared
BacFinish_SeedFirst(cur, kenc, rnd_ifd, rnd_ic, k_ifd, resp) ==
    LET dec_output == des3_decrypt_cbc(kenc, resp.ct)
        k_icc == Slice(dec_output, 16, 16)
        kseed == [x \in 1..16 |-> BXor(k_ifd[x], k_icc[x])]
    IN  [ok |-> ChallengeMatches(rnd_ifd, dec_output),
         ssc |-> Slice(rnd_ic, 4, 4) \o Slice(rnd_ifd, 4, 4),
         ks_enc |-> IF ChallengeMatches(rnd_ifd, dec_output)
                    THEN emrtd_deskey(kseed, KENC_type) ELSE cur.ks_enc,
         ks_mac |-> IF ChallengeMatches(rnd_ifd, dec_output)
                    THEN emrtd_deskey(kseed, KMAC_type) ELSE cur.ks_mac,
         dec_output |-> dec_output]

\* what the caller's ssc, ks_enc, ks_mac hold when emrtd_do_bac returns after the
\* EXTERNAL AUTHENTICATE answer resp; cur is what they held at entry
BacFinish(cur, kenc, rnd_ifd, rnd_ic, k_ifd, resp) ==
    LET dec_output == des3_decrypt_cbc(kenc, resp.ct)
        k_icc == Slice(dec_output, 16, 16)
        kseed == [x \in 1..16 |-> BXor(k_ifd[x], k_icc[x])]
    IN  IF ~ChallengeMatches(rnd_ifd, dec_output)
        THEN [ok |-> FALSE, ssc |-> cur.ssc, ks_enc |-> cur.ks_enc, ks_mac |-> cur.ks_mac,
              dec_output |-> dec_output]
        ELSE [ok |-> TRUE,
              ssc |-> Slice(rnd_ic, 4, 4) \o Slice(rnd_ifd, 4, 4),
              ks_enc |-> emrtd_deskey(kseed, KENC_type),
              ks_mac |-> emrtd_deskey(kseed, KMAC_type),
              dec_output |-> dec_output]

-----------------------------------------------------------------------------
(* Control flow of dumpHF_EMRTD and infoHF_EMRTD between two APDU exchanges *)

EMRTD_AID_MRTD == "A0000002471001"

Cur == [stage |-> stage, pc |-> pc, file |-> file, filelist |-> filelist,
        idx |-> idx, ret |-> ret, field |-> field, BAC |-> BAC,
        hash_algo |-> hash_algo, dg_hashes |-> dg_hashes, checks |-> checks]

\* mutant: the command returns without DropField
Return_FieldKept(c, r) == [c EXCEPT !.stage = "done", !.pc = "none", !.ret = r]

\* DropField(); return r;
Return(c, r) == [c EXCEPT !.stage = "done", !.pc = "none", !.ret = r, !.field = FALSE]

\* emrtd_select_and_read / emrtd_dump_file of file fid comes next
SelectNext(c, st, fid) == [c EXCEPT !.stage = st, !.pc = "select", !.file = fid]

\* mutant: fastdump is not looked at by any command
Eligible_NoFast(o, dg) == ~dg_table[dg].pace /\ ~dg_table[dg].eac

\* the filter of the loop over the file list: dumpHF_EMRTD and
\* infoHF_EMRTD_offline take what needs neither PACE nor EAC,
\* infoHF_EMRTD only what is also marked fastdump
Eligible(o, dg) ==
    IF o = "info"
    THEN dg_table[dg].fastdump /\ ~dg_table[dg].pace /\ ~dg_table[dg].eac
    ELSE ~dg_table[dg].pace /\ ~dg_table[dg].eac

RECURSIVE LoopFrom(_, _, _)
\* for (i = ...; i < filelistlen; i++): the next file that is read, or the end
LoopFrom(c, o, i) ==
    IF i >= Len(c.filelist) THEN Return(c, "PM3_SUCCESS")
    ELSE LET dg == emrtd_tag_to_dg(c.filelist[i + 1])
         IN  IF dg # NoDg /\ Eligible(o, dg)
             THEN [SelectNext(c, "loop", dg_table[dg].fileid) EXCEPT
                       !.idx = i, !.pc = IF o = "offline" THEN "load" ELSE "select"]
             ELSE LoopFrom(c, o, i + 1)

\* mutant: EF_SOD is not added to the file list of the dump
AfterEfCom_NoSod(c, o, ok, data) ==
    IF ~ok THEN Return(c, "PM3_ESOFT")
    ELSE LET r == emrtd_lds_get_data_by_tag(data, Len(data), 92, 0, FALSE, TRUE, 0)
         IN  IF ~r.found THEN Return(c, "PM3_ESOFT")
             ELSE IF o = "dump"
                  THEN LoopFrom([c EXCEPT !.filelist = r.data], o, 0)
                  ELSE SelectNext([c EXCEPT !.filelist = r.data], "sod",
                                  dg_table[EF_SOD].fileid)

\* after emrtd_select_and_read of EF_COM returned ok with data
AfterEfCom(c, o, ok, data) ==
    IF ~ok THEN Return(c, "PM3_ESOFT")
    ELSE LET r == emrtd_lds_get_data_by_tag(data, Len(data), 92, 0, FALSE, TRUE, 0)
         IN  IF ~r.found THEN Return(c, "PM3_ESOFT")
             ELSE IF o = "dump"
                  THEN LoopFrom([c EXCEPT !.filelist = Append(r.data, 119)], o, 0)
                  ELSE SelectNext([c EXCEPT !.filelist = r.data], "sod",
                                  dg_table[EF_SOD].fileid)

\* uint8_t dg_hashes[16][64] is not initialised: nothing is written to any row
UninitHashes == [n \in 0..15 |-> <<>>]

\* the loop starts with what the parse p left in hash_algo and dg_hashes
LoopWithHashes(c, o, p) ==
    LoopFrom([c EXCEPT !.hash_algo = p.hashalgo, !.dg_hashes = p.hashes], o, 0)

\* infoHF_EMRTD / infoHF_EMRTD_offline after EF_SOD was read: int hash_algo = 0,
\* emrtd_parse_ef_sod_hashes, whose result is only reported, then the loop
AfterEfSod(c, o, ok, data) ==
    IF ~ok THEN Return(c, "PM3_ESOFT")
    ELSE LoopWithHashes(c, o, emrtd_parse_ef_sod_hashes(data, Len(data), UninitHashes, 0))

\* the info loop body after the read of file filelist[idx] came back (ok, data):
\* if (hash_algo != -1) the digest of data is compared with dg_hashes[dg->dgnum],
\* whose bytes that were never written read as fill
HashCheck(c, ok, data, fill) ==
    LET dg      == emrtd_tag_to_dg(c.filelist[c.idx + 1])
        checked == ok /\ c.hash_algo # -1
        hashlen == hashalg_table[c.hash_algo + 1].hashlen
        row     == c.dg_hashes[dg_table[dg].dgnum]
        digest  == IF checked THEN hasher(c.hash_algo, data) ELSE <<>>
        stored  == IF checked
                   THEN [k \in 1..hashlen |-> IF k <= Len(row) THEN row[k] ELSE fill]
                   ELSE <<>>
    IN  [idx |-> c.idx, tag |-> dg_table[dg].tag, dgnum |-> dg_table[dg].dgnum,
         read |-> ok, data |-> data, checked |-> checked, digest |-> digest,
         stored |-> stored, passed |-> checked /\ digest = stored]

\* mutant: a failed hash check ends the command
AfterLoopFile_StopOnMismatch(c, o, ok, data, fill) ==
    IF o = "dump" THEN LoopFrom(c, o, c.idx + 1)
    ELSE LET h == HashCheck(c, ok, data, fill)
             n == [c EXCEPT !.checks = Append(@, h)]
         IN  IF h.checked /\ ~h.passed THEN Return(n, "PM3_ESOFT")
             ELSE LoopFrom(n, o, c.idx + 1)

\* the loop body after the read of one listed file: its result is not looked at
\* (dumpHF_EMRTD) or only guards the parsing and hashing (infoHF_EMRTD,
\* infoHF_EMRTD_offline); the outcome of the hash check is only printed
AfterLoopFile(c, o, ok, data, fill) ==
    IF o = "dump" THEN LoopFrom(c, o, c.idx + 1)
    ELSE LoopFrom([c EXCEPT !.checks = Append(@, HashCheck(c, ok, data, fill))], o,
                  c.idx + 1)

\* dumpHF_EMRTD after the EF_CardAccess attempt: failure is only reported
AfterCardAccess(c, ok) == [c EXCEPT !.stage = "auth", !.pc = "sel_aid"]

\* mutant: the result of emrtd_do_auth is not looked at
AfterAuth_Unchecked(c, ok) == SelectNext(c, "efcom", dg_table[EF_COM].fileid)

\* emrtd_do_auth returned ok
AfterAuth(c, ok) ==
    IF ok THEN SelectNext(c, "efcom", dg_table[EF_COM].fileid)
    ELSE Return(c, "PM3_ESOFT")

\* mutant: EXTERNAL AUTHENTICATE is sent whatever GET CHALLENGE came to
AfterGetChallenge_Unchecked(c, ok) == [c EXCEPT !.pc = "ext_auth"]

\* emrtd_do_bac after GET CHALLENGE: if (emrtd_get_challenge(...) == false) return false
AfterGetChallenge(c, ok) ==
    IF ok THEN [c EXCEPT !.pc = "ext_auth"] ELSE AfterAuth(c, FALSE)

\* mutant: emrtd_do_bac is tried although no MRZ data was supplied
BacBranch_NoMrzTest(c, bav) == [c EXCEPT !.BAC = TRUE, !.pc = "get_challenge"]

\* emrtd_do_auth found BAC enforced: if (*BAC) { ... }
BacBranch(c, bav) ==
    IF ~bav THEN AfterAuth([c EXCEPT !.BAC = TRUE], FALSE)
    ELSE [c EXCEPT !.BAC = TRUE, !.pc = "get_challenge"]

\* emrtd_select_and_read returned (ok, data) in stage c.stage
FileDone(c, o, ok, data, fill) ==
    CASE c.stage = "cardaccess" -> AfterCardAccess(c, ok)
      [] c.stage = "efcom"      -> AfterEfCom(c, o, ok, data)
      [] c.stage = "sod"        -> AfterEfSod(c, o, ok, data)
      [] c.stage = "loop"       -> AfterLoopFile(c, o, ok, data, fill)

\* emrtd_read_file returned (ok, data)
ReadDone(c, o, bav, ok, data, fill) ==
    IF c.stage = "auth"
    THEN IF ok THEN AfterAuth([c EXCEPT !.BAC = FALSE], TRUE) ELSE BacBranch(c, bav)
    ELSE FileDone(c, o, ok, data, fill)

SetControl(c) ==
    /\ stage' = c.stage
    /\ pc' = c.pc
    /\ file' = c.file
    /\ filelist' = c.filelist
    /\ idx' = c.idx
    /\ ret' = c.ret
    /\ field' = c.field
    /\ BAC' = c.BAC
    /\ hash_algo' = c.hash_algo
    /\ dg_hashes' = c.dg_hashes
    /\ checks' = c.checks

\* the exchange of emrtd_exchange_commands: no answer drops the field
Exchanged(c, outcome) == [c EXCEPT !.field = IF outcome = "transport" THEN FALSE ELSE @]

\* one line of the history
Apdu(st, ins, sm, fid, offset, le, s, res) ==
    [st |-> st, ins |-> ins, sm |-> sm, fid |-> fid, offset |-> offset, le |-> le,
     ssc |-> s, res |-> res]

NoLast == [op |-> "none", before |-> <<>>, after |-> <<>>, cmd_ssc |-> <<>>,
           cmd_mac |-> NoMac, resp_ssc |-> <<>>, exchanged |-> FALSE, rapdu |-> NoRapdu, ok |-> FALSE,
           decrypted |-> FALSE, dataout |-> <<>>]

\* the card's EF_COM is fixed when it is first read
EfComChoice == IF card.sel = "011E" /\ card.efcom = <<>> THEN EfComImages ELSE {card.efcom}

\* and so is its EF_SOD
SodChoice == IF card.sel = "011D" /\ card.sod = <<>> THEN SodImages ELSE {card.sod}

-----------------------------------------------------------------------------
(* The state machine *)

\* no key was pressed
NoKey == [pressed |-> FALSE, sent |-> 0]

\* the locals of dumpHF_EMRTD / infoHF_EMRTD at entry
LocalsAtRest ==
    /\ op = "none"
    /\ BAC_available = FALSE
    /\ stage = "idle"
    /\ pc = "none"
    /\ BAC = FALSE
    /\ ssc = Zeros(8)
    /\ ks_enc = ZeroKey
    /\ ks_mac = ZeroKey
    /\ field = FALSE
    /\ ret = "none"
    /\ apdus = <<>>
    /\ file = ""
    /\ filelist = <<>>
    /\ idx = 0
    /\ rf = NoRead
    /\ bac = NoBac
    /\ last = NoLast
    /\ hash_algo = 0
    /\ dg_hashes = <<>>
    /\ checks = <<>>
    /\ keypress = NoKey

\* no command runs, and nothing is known of the card that will come into the field
AtRest ==
    /\ LocalsAtRest
    /\ card = [sel |-> "", efcom |-> <<>>, sod |-> <<>>]

\* the variables of the two commands
cmdvars == <<op, BAC_available, stage, pc, BAC, ssc, ks_enc, ks_mac, field, ret, apdus,
             file, filelist, idx, rf, bac, last, card, hash_algo, dg_hashes, checks,
             keypress>>

Init ==
    /\ AtRest
    /\ fnIn = <<>>
    /\ fnOut = <<>>

\* dumpHF_EMRTD / infoHF_EMRTD up to the first APDU: emrtd_connect
Start ==
    /\ stage = "idle"
    /\ \E o \in {"dump", "info"}, bav \in BOOLEAN, connected \in BOOLEAN :
        /\ op' = o
        /\ BAC_available' = bav
        /\ IF ~connected
           THEN SetControl(Return(Cur, "PM3_ESOFT"))
           ELSE IF o = "dump"
                THEN SetControl(SelectNext([Cur EXCEPT !.field = TRUE], "cardaccess",
                                           dg_table[EF_CardAccess].fileid))
                ELSE SetControl([Cur EXCEPT !.field = TRUE, !.stage = "auth", !.pc = "sel_aid"])
    /\ UNCHANGED <<ssc, ks_enc, ks_mac, apdus, rf, bac, last, card, fnIn, fnOut, keypress>>

\* mutant: the key buffers are wiped when a command returns
SessionKeysKept_Wiped ==
    /\ ks_enc' = ZeroKey
    /\ ks_mac' = ZeroKey

\* the select and read functions take ks_enc and ks_mac as inputs of des3_*_cbc and
\* retail_mac and never write through them
SessionKeysKept ==
    /\ ks_enc' = ks_enc
    /\ ks_mac' = ks_mac

\* mutant: files are always selected and read with secure messaging
use_secure_Always == TRUE

\* the argument use_secure of emrtd_select_and_read and emrtd_dump_file: the callers
\* pass their local BAC
use_secure == BAC

\* emrtd_select_file: a plain SELECT and what follows it up to the next APDU
PlainSelect ==
    /\ stage \in {"cardaccess", "auth", "efcom", "sod", "loop"}
    /\ pc \in {"sel_aid", "sel_efcom", "sel_dg1"} \/ (pc = "select" /\ ~use_secure)
    /\ \E outcome \in Outcomes :
        LET ok  == outcome = "ok"
            fid == CASE pc = "sel_aid"   -> EMRTD_AID_MRTD
                     [] pc = "sel_efcom" -> dg_table[EF_COM].fileid
                     [] pc = "sel_dg1"   -> dg_table[EF_DG1].fileid
                     [] pc = "select"    -> file
            c   == Exchanged(Cur, outcome)
            n   == CASE pc = "sel_aid"   -> IF ok THEN [c EXCEPT !.pc = "sel_efcom"]
                                            ELSE AfterAuth(c, FALSE)
                     [] pc = "sel_efcom" -> IF ok THEN [c EXCEPT !.BAC = FALSE, !.pc = "sel_dg1"]
                                            ELSE BacBranch(c, BAC_available)
                     [] pc = "sel_dg1"   -> [c EXCEPT !.pc = "probe"]
                     [] pc = "select"    -> IF ok THEN [c EXCEPT !.pc = "probe"]
                                            ELSE FileDone(c, op, FALSE, <<>>, 0)
        IN  /\ SetControl(n)
            /\ apdus' = Append(apdus, Apdu(stage, "SELECT", FALSE, fid, 0, 0, <<>>, outcome))
            /\ card' = IF ok THEN [card EXCEPT !.sel = fid] ELSE card
            /\ rf' = IF n.pc = "probe" THEN ReadStart(FALSE) ELSE rf
            /\ bac' = IF n.pc = "get_challenge" THEN BacStart(ssc, ks_enc, ks_mac) ELSE bac
    /\ SessionKeysKept
    /\ UNCHANGED <<op, BAC_available, ssc, last, fnIn, fnOut, keypress>>

\* _emrtd_read_binary inside emrtd_read_file, and what follows it
PlainRead ==
    /\ stage \in {"cardaccess", "auth", "efcom", "sod", "loop"}
    /\ pc \in {"probe", "chunk"}
    /\ ~rf.secure
    /\ \E outcome \in Outcomes, img \in EfComChoice, sod \in SodChoice, junk \in Uninit,
          fill \in Uninit :
        LET ok   == outcome = "ok"
            data == IF ok THEN ImageRead(CardImage(card.sel, img, sod), rf.offset, rf.toread)
                    ELSE <<>>
            r    == ReadContinue(rf, pc = "probe", ok, data, junk)
            c    == Exchanged(Cur, outcome)
            n    == IF r.result = "running" THEN [c EXCEPT !.pc = "chunk"]
                    ELSE ReadDone(c, op, BAC_available, r.result = "true", r.response, fill)
        IN  /\ SetControl(n)
            /\ apdus' = Append(apdus, Apdu(stage, "READ BINARY", FALSE, card.sel,
                                           rf.offset, rf.toread, <<>>, outcome))
            /\ card' = IF ok THEN [card EXCEPT !.efcom = img, !.sod = sod] ELSE card
            /\ rf' = r
            /\ bac' = IF n.pc = "get_challenge" THEN BacStart(ssc, ks_enc, ks_mac) ELSE bac
    /\ SessionKeysKept
    /\ UNCHANGED <<op, BAC_available, ssc, last, fnIn, fnOut, keypress>>

\* emrtd_do_bac up to and including GET CHALLENGE
GetChallenge ==
    /\ stage = "auth"
    /\ pc = "get_challenge"
    /\ \E outcome \in Outcomes, i \in 1..MaxRndIc :
        LET ok == outcome = "ok"
            c  == Exchanged(Cur, outcome)
        IN  /\ apdus' = Append(apdus, Apdu(stage, "GET CHALLENGE", FALSE, "", 0, 8, <<>>, outcome))
            /\ SetControl(AfterGetChallenge(c, ok))
            /\ bac' = IF ok THEN [bac EXCEPT !.rnd_ic = RndIc(i)]
                      ELSE [bac EXCEPT !.state = "fail"]
    /\ UNCHANGED <<op, BAC_available, ssc, ks_enc, ks_mac, rf, last, card, fnIn, fnOut, keypress>>

\* the answers a card may give to EXTERNAL AUTHENTICATE: E.ICC under the MRZ key or
\* under another key, over RND.IC || RND.IFD || K.ICC, over the two nonces swapped,
\* or over another RND.IFD; with M.ICC right or wrong
BacAnswers(kenc, kmac, rnd_ifd, rnd_ic) ==
    LET other == [k \in 1..8 |-> 238]
        pts == {rnd_ic \o rnd_ifd \o KIcc, rnd_ifd \o rnd_ic \o KIcc, rnd_ic \o other \o KIcc}
        cts == {des3_encrypt_cbc(k, p) : k \in {kenc, ForeignKey}, p \in pts}
    IN  UNION {{[ct |-> ct, mac |-> m] :
                    m \in {retail_mac(kmac, MacInput(<<>>, <<DO(0, 32, <<>>, ct)>>)), NoMac}} :
               ct \in cts}

\* emrtd_do_bac from EXTERNAL AUTHENTICATE to its return, and emrtd_do_auth's return
ExternalAuthenticate ==
    /\ stage = "auth"
    /\ pc = "ext_auth"
    /\ LET rnd_ifd == bac.rnd_ifd
           k_ifd   == rng(16)
           kenc    == emrtd_deskey(KseedMrz, KENC_type)
           kmac    == emrtd_deskey(KseedMrz, KMAC_type)
       IN  \E outcome \in Outcomes, resp \in BacAnswers(kenc, kmac, rnd_ifd, bac.rnd_ic) :
            LET ok == outcome = "ok"
                c  == Exchanged(Cur, outcome)
                f  == BacFinish([ssc |-> ssc, ks_enc |-> ks_enc, ks_mac |-> ks_mac],
                                kenc, rnd_ifd, bac.rnd_ic, k_ifd, resp)
            IN  /\ apdus' = Append(apdus, Apdu(stage, "EXTERNAL AUTHENTICATE", FALSE, "",
                                               0, 40, <<>>,
                                               IF ok /\ ~f.ok THEN "mismatch" ELSE outcome))
                /\ IF ok
                   THEN /\ ssc' = f.ssc
                        /\ ks_enc' = f.ks_enc
                        /\ ks_mac' = f.ks_mac
                        /\ bac' = [bac EXCEPT !.state = IF f.ok THEN "ok" ELSE "fail",
                                              !.dec_output = f.dec_output]
                        /\ SetControl(AfterAuth(c, f.ok))
                   ELSE /\ UNCHANGED <<ssc, ks_enc, ks_mac>>
                        /\ bac' = [bac EXCEPT !.state = "fail"]
                        /\ SetControl(AfterAuth(c, FALSE))
    /\ UNCHANGED <<op, BAC_available, rf, last, card, fnIn, fnOut, keypress>>

\* the answers a card may give to a secure command MACed with counter s1: the data
\* objects dos with the MAC over bump(s1) || dos, with the MAC of a replayed counter
\* (s1 itself), or with a MAC under another key
SmAnswers(kmac, s1, dos) ==
    {[dos |-> dos, mac |-> m] :
        m \in {retail_mac(kmac, MacInput(emrtd_bump_ssc(s1), dos))}
               \cup (IF MayFail
                     THEN {retail_mac(kmac, MacInput(s1, dos)),
                           retail_mac(ForeignKey, MacInput(emrtd_bump_ssc(s1), dos))}
                     ELSE {})}

DO99 == DO(153, 2, <<144, 0>>, NoCt)

\* DO'87' of a READ BINARY answer: 87 L 01 and the padded data under KSenc
DO87(kenc, data) ==
    LET padded == pad_block(data)
    IN  DO(135, Len(padded) + 1, <<1>>, des3_encrypt_cbc(kenc, padded))

\* how the answer's MAC turned out, for the history
SmResult(outcome, r) == IF outcome # "ok" THEN outcome ELSE IF r.ok THEN "ok" ELSE "mac"

\* emrtd_secure_select_file and what follows it up to the next APDU
SecureSelect ==
    /\ stage \in {"efcom", "sod", "loop"}
    /\ pc = "select"
    /\ use_secure
    /\ \E outcome \in Outcomes, rapdu \in SmAnswers(ks_mac, CommandSsc(ssc), <<DO99>>) :
        LET r == emrtd_secure_select_file(ks_enc, ks_mac, ssc, file, outcome, rapdu)
            c == Exchanged(Cur, outcome)
            n == IF r.ok THEN [c EXCEPT !.pc = "probe"] ELSE FileDone(c, op, FALSE, <<>>, 0)
        IN  /\ SetControl(n)
            /\ ssc' = r.ssc
            /\ apdus' = Append(apdus, Apdu(stage, "SELECT", TRUE, file, 0, 0, r.cmd_ssc,
                                           SmResult(outcome, r)))
            /\ card' = IF outcome = "ok" THEN [card EXCEPT !.sel = file] ELSE card
            /\ rf' = IF r.ok THEN ReadStart(TRUE) ELSE rf
            /\ last' = [op |-> "select", before |-> ssc, after |-> r.ssc,
                        cmd_ssc |-> r.cmd_ssc, cmd_mac |-> r.cmd_mac,
                        resp_ssc |-> r.resp_ssc,
                        exchanged |-> r.exchanged, rapdu |-> r.rapdu, ok |-> r.ok,
                        decrypted |-> FALSE, dataout |-> <<>>]
    /\ SessionKeysKept
    /\ UNCHANGED <<op, BAC_available, bac, fnIn, fnOut, keypress>>

\* _emrtd_secure_read_binary_decrypt inside emrtd_read_file, and what follows it
SecureRead ==
    /\ stage \in {"efcom", "sod", "loop"}
    /\ pc \in {"probe", "chunk"}
    /\ rf.secure
    /\ \E outcome \in Outcomes, img \in EfComChoice, sod \in SodChoice, junk \in Uninit,
          fill \in Uninit :
        \E rapdu \in SmAnswers(ks_mac, CommandSsc(ssc),
                               <<DO87(ks_enc, ImageRead(CardImage(card.sel, img, sod),
                                                        rf.offset, rf.toread)), DO99>>) :
        LET d == _emrtd_secure_read_binary_decrypt(ks_enc, ks_mac, ssc, rf.offset,
                                                   rf.toread, outcome, rapdu)
            r == ReadContinue(rf, pc = "probe", d.ok, d.dataout, junk)
            c == Exchanged(Cur, outcome)
            n == IF r.result = "running" THEN [c EXCEPT !.pc = "chunk"]
                 ELSE ReadDone(c, op, BAC_available, r.result = "true", r.response, fill)
        IN  /\ SetControl(n)
            /\ ssc' = d.ssc
            /\ apdus' = Append(apdus, Apdu(stage, "READ BINARY", TRUE, card.sel, rf.offset,
                                           rf.toread, d.sm.cmd_ssc, SmResult(outcome, d)))
            /\ card' = IF outcome = "ok" THEN [card EXCEPT !.efcom = img, !.sod = sod]
                       ELSE card
            /\ rf' = r
            /\ last' = [op |-> "read", before |-> ssc, after |-> d.ssc,
                        cmd_ssc |-> d.sm.cmd_ssc, cmd_mac |-> d.sm.cmd_mac,
                        resp_ssc |-> d.sm.resp_ssc,
                        exchanged |-> d.sm.exchanged, rapdu |-> d.sm.rapdu, ok |-> d.ok,
                        decrypted |-> d.decrypted, dataout |-> d.dataout]
    /\ SessionKeysKept
    /\ UNCHANGED <<op, BAC_available, bac, fnIn, fnOut, keypress>>

\* infoHF_EMRTD_offline up to its loop: EF_COM and EF_SOD are loaded from the dump
\* directory, which may lack either
OfflineStart ==
    /\ stage = "idle"
    /\ \E efcom \in EfComImages \cup {<<>>}, sod \in SodImages \cup {<<>>} :
        LET list == emrtd_lds_get_data_by_tag(efcom, Len(efcom), 92, 0, FALSE, TRUE, 0)
            c    == [Cur EXCEPT !.filelist = list.data, !.stage = "sod"]
        IN  /\ op' = "offline"
            /\ card' = [sel |-> "", efcom |-> efcom, sod |-> sod]
            /\ IF efcom = <<>> \/ ~list.found
               THEN SetControl(Return(Cur, "PM3_ESOFT"))
               ELSE SetControl(AfterEfSod(c, "offline", sod # <<>>, sod))
    /\ UNCHANGED <<BAC_available, ssc, ks_enc, ks_mac, apdus, rf, bac, last, fnIn, fnOut, keypress>>

\* one pass of the loop of infoHF_EMRTD_offline that loads a file, which the dump
\* directory may lack
OfflineFile ==
    /\ op = "offline"
    /\ stage = "loop"
    /\ pc = "load"
    /\ \E present \in BOOLEAN, fill \in Uninit :
        SetControl(AfterLoopFile(Cur, "offline", present,
                                 IF present THEN CardImage(file, card.efcom, card.sod)
                                 ELSE <<>>, fill))
    /\ UNCHANGED <<op, BAC_available, ssc, ks_enc, ks_mac, apdus, rf, bac, last, card,
                   fnIn, fnOut, keypress>>

Next ==
    \/ Start
    \/ OfflineStart
    \/ OfflineFile
    \/ PlainSelect
    \/ PlainRead
    \/ GetChallenge
    \/ ExternalAuthenticate
    \/ SecureSelect
    \/ SecureRead

Spec == Init /\ [][Next]_vars

-----------------------------------------------------------------------------
(* The two commands with a user at the keyboard *)

\* the loop over the file list stands between two files: a file of the list was
\* selected or read before, the SELECT of the next file is not sent yet
BetweenReads ==
    /\ op \in {"dump", "info"}
    /\ stage = "loop"
    /\ pc = "select"
    /\ \E i \in DOMAIN apdus : apdus[i].st = "loop"

\* the user presses Enter between two files. Neither loop calls kbd_enter_pressed or
\* looks at the keyboard in any other way: no step of the commands reads keypress
KeyPress ==
    /\ BetweenReads
    /\ ~keypress.pressed
    /\ keypress' = [pressed |-> TRUE, sent |-> Len(apdus)]
    /\ UNCHANGED <<op, BAC_available, stage, pc, BAC, ssc, ks_enc, ks_mac, field, ret,
                   apdus, file, filelist, idx, rf, bac, last, card, hash_algo, dg_hashes,
                   checks, fnIn, fnOut>>

NextKey == Next \/ KeyPress

\* one card: EF_COM lists DG1, DG2 and DG11, EF_SOD holds their SHA-1 hashes
InitKey ==
    /\ LocalsAtRest
    /\ card = [sel |-> "", efcom |-> EfComOf([k \in 1..MaxListLen |-> ListTagB(k)]),
               sod |-> SodImage([oid |-> hashalg_table[1].descriptor,
                                 h1  |-> hasher(0, Dg1File)])]
    /\ fnIn = <<>>
    /\ fnOut = <<>>

SpecKey == InitKey /\ [][NextKey]_vars

-----------------------------------------------------------------------------
(* emrtd_bump_ssc on its own: every counter value with bytes 00, 01, FE or FF *)

SscBytes == {0, 1, 254, 255}

InitBump ==
    /\ AtRest
    /\ fnIn \in [1..8 -> SscBytes]
    /\ fnOut = <<>>

BumpStep ==
    /\ fnOut = <<>>
    /\ fnOut' = emrtd_bump_ssc(fnIn)
    /\ UNCHANGED <<cmdvars, fnIn>>

NextBump == BumpStep

SpecBump == InitBump /\ [][NextBump]_vars

-----------------------------------------------------------------------------
(* emrtd_get_asn1_data_length and emrtd_get_asn1_field_length on their own: a tag of
   one or two bytes, four bytes of length field, and up to two more bytes *)

LenBytes == {0, 1, 127, 128, 129, 130, 131, 132, 144, 255}

Asn1Inputs ==
    {[datain |-> t \o l \o Zeros(k), datainlen |-> Len(t) + 4 + k, offset |-> Len(t)] :
        t \in {<<48>>, <<95, 1>>}, l \in [1..4 -> LenBytes], k \in {0, 2}}

InitAsn1 ==
    /\ AtRest
    /\ fnIn \in Asn1Inputs
    /\ fnOut = <<>>

Asn1Step ==
    /\ fnOut = <<>>
    /\ fnOut' = <<[datalen  |-> emrtd_get_asn1_data_length(fnIn.datain, fnIn.datainlen,
                                                            fnIn.offset),
                   fieldlen |-> emrtd_get_asn1_field_length(fnIn.datain, fnIn.datainlen,
                                                             fnIn.offset)]>>
    /\ UNCHANGED <<cmdvars, fnIn>>

NextAsn1 == Asn1Step

SpecAsn1 == InitAsn1 /\ [][NextAsn1]_vars

-----------------------------------------------------------------------------
(* emrtd_lds_get_data_by_tag on its own *)

\* the memory behind a buffer: bytes of one value, enough of them for every read
Beyond(n, v) == [k \in 1..(n + 6) |-> v]

\* what a call is asked to find
Queries == {[tag1 |-> 48, tag2 |-> 0, twobytetag |-> FALSE],
            [tag1 |-> 4, tag2 |-> 0, twobytetag |-> FALSE],
            [tag1 |-> 95, tag2 |-> 1, twobytetag |-> TRUE]}

LdsInput(buf, fill, elems, wf, q, entertoptag, skiptagcount) ==
    [datain |-> buf \o Beyond(Len(buf), fill), datainlen |-> Len(buf), elems |-> elems,
     wf |-> wf, tag1 |-> q.tag1, tag2 |-> q.tag2, twobytetag |-> q.twobytetag,
     entertoptag |-> entertoptag, skiptagcount |-> skiptagcount]

LdsCall(in) ==
    emrtd_lds_get_data_by_tag(in.datain, in.datainlen, in.tag1, in.tag2, in.twobytetag,
                              in.entertoptag, in.skiptagcount)

LdsStep ==
    /\ fnOut = <<>>
    /\ fnOut' = <<LdsCall(fnIn)>>
    /\ UNCHANGED <<cmdvars, fnIn>>

\* (a) any bytes: every buffer of up to MaxRawLen bytes over RawBytes
RawBytes == {48, 95, 0, 1, 3, 128, 129}

RawBuffers == UNION {[1..n -> RawBytes] : n \in 0..MaxRawLen}

InitLdsRaw ==
    /\ AtRest
    /\ fnIn \in {LdsInput(buf, fill, <<>>, FALSE, q, e, k) :
                    buf \in RawBuffers, fill \in {0, 48}, q \in Queries,
                    e \in BOOLEAN, k \in {0, 1}}
    /\ fnOut = <<>>

NextLdsRaw == LdsStep

SpecLdsRaw == InitLdsRaw /\ [][NextLdsRaw]_vars

\* (b) well-formed buffers: up to MaxElems sibling elements, bare or inside one outer
\* element whose tag has one or two bytes
Elem(tag, long, val) == [tag |-> tag, long |-> long, val |-> val]

Elems ==
    {Elem(t, FALSE, v) : t \in {<<48>>, <<4>>, <<95, 1>>},
                         v \in {<<>>, <<4, 1, 9>>, <<48, 1, 7>>}}
        \cup {Elem(<<48>>, TRUE, <<4, 1, 9>>)}

\* tag, length (short form, or 81 xx), value
Enc(e) == e.tag \o (IF e.long THEN <<129, Len(e.val)>> ELSE <<Len(e.val)>>) \o e.val

RECURSIVE EncAll(_)
EncAll(es) == IF es = <<>> THEN <<>> ELSE Enc(Head(es)) \o EncAll(Tail(es))

ElemLists == UNION {[1..n -> Elems] : n \in 0..MaxElems}

Wrapped(outer, es) ==
    IF outer = <<>> THEN EncAll(es) ELSE outer \o <<Len(EncAll(es))>> \o EncAll(es)

InitLds ==
    /\ AtRest
    /\ fnIn \in {LdsInput(Wrapped(outer, es), 48, es, TRUE, q, outer # <<>>, k) :
                    es \in ElemLists, outer \in {<<>>, <<96>>, <<127, 97>>},
                    q \in Queries, k \in 0..2}
    /\ fnOut = <<>>

NextLds == LdsStep

SpecLds == InitLds /\ [][NextLds]_vars

-----------------------------------------------------------------------------
(* emrtd_read_file on its own: the file is selected, the caller hands in its buffer *)

\* the length field of L in f bytes: L, 81 xx, 82 xx yy, 83 xx yy zz
LenEnc(f, L) ==
    CASE f = 1 -> <<L>>
      [] f = 2 -> <<129, L>>
      [] f = 3 -> <<130, L \div 256, L % 256>>
      [] f = 4 -> <<131, L \div 65536, (L \div 256) % 256, L % 256>>

\* a file: tag 61, the length field, L value bytes
FileOf(f, L) == <<97>> \o LenEnc(f, L) \o [k \in 1..L |-> (k % 255) + 1]

\* the files on the card, by f and L; 1 + f + L >= 4 for each
ReadFiles == {<<1, 2>>, <<1, 5>>, <<2, 16>>, <<2, 144>>, <<3, 16>>, <<3, 256>>,
              <<4, 16>>, <<4, 256>>}

\* what the caller's buffer holds before the call
StaleOut == [k \in 1..6 |-> 170]

InitRead ==
    /\ AtRest
    /\ fnIn \in {[image |-> FileOf(x[1], x[2]), f |-> x[1], L |-> x[2],
                   use_secure |-> s, dataout |-> StaleOut, dataoutlen |-> 6,
                   kenc |-> emrtd_deskey(k, KENC_type), kmac |-> emrtd_deskey(k, KMAC_type),
                   ssc |-> c] :
                    x \in ReadFiles, s \in BOOLEAN, k \in {KseedMrz},
                    c \in {Zeros(8), [i \in 1..8 |-> 255]}}
    /\ fnOut = <<>>

\* the call: emrtd_read_file(dataout, dataoutlen, kenc, kmac, ssc, use_secure, use_14b)
ReadFileCall ==
    /\ rf = NoRead
    /\ fnOut = <<>>
    /\ rf' = ReadStart(fnIn.use_secure)
    /\ ks_enc' = fnIn.kenc
    /\ ks_mac' = fnIn.kmac
    /\ ssc' = fnIn.ssc
    /\ field' = TRUE
    /\ UNCHANGED <<op, BAC_available, stage, pc, BAC, ret, apdus, file, filelist, idx, bac,
                   last, card, hash_algo, dg_hashes, checks, fnIn, fnOut, keypress>>

\* one READ BINARY of emrtd_read_file and what follows it, up to the next READ BINARY
\* or the return
ReadFileStep ==
    /\ rf.result = "running"
    /\ \E outcome \in Outcomes, junk \in Uninit :
        \E rapdu \in SmAnswers(ks_mac, CommandSsc(ssc),
                               <<DO87(ks_enc, ImageRead(fnIn.image, rf.offset, rf.toread)),
                                 DO99>>) :
        LET probe == rf.reads = 0
            plain == [ok |-> outcome = "ok", ssc |-> ssc,
                      dataout |-> IF outcome = "ok"
                                  THEN ImageRead(fnIn.image, rf.offset, rf.toread) ELSE <<>>]
            d == IF rf.secure
                 THEN _emrtd_secure_read_binary_decrypt(ks_enc, ks_mac, ssc, rf.offset,
                                                        rf.toread, outcome, rapdu)
                 ELSE plain
            r == ReadContinue(rf, probe, d.ok, d.dataout, junk)
        IN  /\ rf' = r
            /\ ssc' = d.ssc
            /\ field' = Exchanged(Cur, outcome).field
            /\ apdus' = Append(apdus, Apdu(stage, "READ BINARY", rf.secure, "", rf.offset,
                                           rf.toread, IF rf.secure THEN d.sm.cmd_ssc ELSE <<>>,
                                           IF rf.secure THEN SmResult(outcome, d) ELSE outcome))
            /\ fnOut' = IF r.result = "running" THEN fnOut
                        ELSE <<ReadFileReturn(r, fnIn.dataout, fnIn.dataoutlen)>>
    /\ SessionKeysKept
    /\ UNCHANGED <<op, BAC_available, stage, pc, BAC, ret, file, filelist, idx, bac, last,
                   card, hash_algo, dg_hashes, checks, keypress, fnIn>>

NextRead ==
    \/ ReadFileCall
    \/ ReadFileStep

SpecRead == InitRead /\ [][NextRead]_vars

-----------------------------------------------------------------------------
(* emrtd_parse_ef_sod_hash_algo on its own, followed by the hash check of one file *)

\* d with the byte at place p changed
Changed(d, p) == [d EXCEPT ![p] = (@ + 1) % 256]

Descriptors == {hashalg_table[i].descriptor : i \in DOMAIN hashalg_table}

\* what the algorithm-identifier element may hold: a descriptor of the table, bare or
\* followed by 05 00, by 05 00 05 00, by 05 or by 00; a descriptor cut short; a
\* descriptor with one byte changed, bare or followed by 05 00; next to nothing
AlgoContents ==
    Descriptors
        \cup {d \o t : d \in Descriptors, t \in {<<5, 0>>, <<5, 0, 5, 0>>, <<5>>, <<0>>}}
        \cup {SubSeq(d, 1, Len(d) - n) : d \in Descriptors, n \in 1..2}
        \cup UNION {UNION {{Changed(d, p), Changed(d, p) \o <<5, 0>>} : p \in DOMAIN d} :
                        d \in Descriptors}
        \cup {<<>>, <<5>>, <<0>>, <<5, 0>>}

\* the signed object with the algorithm-identifier element behind lead, and without it
AlgoInputs ==
    {[data |-> Tlv(48, lead \o Tlv(48, c) \o Tlv(48, <<>>)), present |-> TRUE,
      contents |-> c] : lead \in {<<>>, <<2, 1, 0>>}, c \in AlgoContents}
        \cup {[data |-> d, present |-> FALSE, contents |-> <<>>] :
                d \in {<<>>, Tlv(48, <<2, 1, 0>>)}}

InitHashAlgo ==
    /\ AtRest
    /\ fnIn \in AlgoInputs
    /\ fnOut = <<>>

HashAlgoStep ==
    /\ fnOut = <<>>
    /\ fnOut' = <<[hashalgo |-> emrtd_parse_ef_sod_hash_algo(fnIn.data, Len(fnIn.data))]>>
    /\ UNCHANGED <<cmdvars, fnIn>>

\* the loop body of infoHF_EMRTD on EF_DG1, read without error, with the algorithm
\* just parsed and a hash table nothing was written to
HashCheckStep ==
    /\ Len(fnOut) = 1
    /\ \E fill \in Uninit :
        fnOut' = Append(fnOut,
                        HashCheck([Cur EXCEPT !.filelist = <<97>>, !.idx = 0,
                                              !.hash_algo = fnOut[1].hashalgo,
                                              !.dg_hashes = UninitHashes],
                                  TRUE, Dg1File, fill))
    /\ UNCHANGED <<cmdvars, fnIn>>

NextHashAlgo == HashAlgoStep \/ HashCheckStep

SpecHashAlgo == InitHashAlgo /\ [][NextHashAlgo]_vars

-----------------------------------------------------------------------------
(* emrtd_print_ef_dg11_info and emrtd_print_ef_dg12_info on their own *)

\* the tags a file may list: three two-byte tags of its switch and the one-byte A0
FileTags(dg) ==
    IF dg = "dg11" THEN {<<95, 14>>, <<95, 16>>, <<95, 17>>, <<160>>}
    ELSE {<<95, 25>>, <<95, 27>>, <<95, 28>>, <<160>>}

\* the value a file holds under tag t: two bytes that tell the tags apart
ValueOf(t) == <<65, t[Len(t)]>>

RECURSIVE Flat(_)
Flat(l) == IF l = <<>> THEN <<>> ELSE Head(l) \o Flat(Tail(l))

\* the lists of up to MaxListLen different tags of ts
TagLists(ts) ==
    {l \in UNION {[1..n -> ts] : n \in 0..MaxListLen} :
        \A i, j \in DOMAIN l : i # j => l[i] # l[j]}

\* the file: top tag, the tag list 5C, then the listed tags that are in present, in
\* the order of the list
FieldsFile(top, list, present) ==
    Tlv(top, Tlv(92, Flat(list))
             \o Flat([k \in DOMAIN list |->
                        IF list[k] \in present THEN list[k] \o <<2>> \o ValueOf(list[k])
                        ELSE <<>>]))

FieldsInputs(dg, top) ==
    {[dg |-> dg, list |-> l, present |-> ps, data |-> FieldsFile(top, l, ps)] :
        l \in TagLists(FileTags(dg)), ps \in SUBSET FileTags(dg)}

InitFields ==
    /\ AtRest
    /\ fnIn \in {in \in FieldsInputs("dg11", 107) \cup FieldsInputs("dg12", 108) :
                    in.present \subseteq {in.list[k] : k \in DOMAIN in.list}}
    /\ fnOut = <<>>

Dg11Step ==
    /\ fnOut = <<>>
    /\ fnIn.dg = "dg11"
    /\ fnOut' = <<emrtd_print_ef_dg11_info(fnIn.data, Len(fnIn.data))>>
    /\ UNCHANGED <<cmdvars, fnIn>>

Dg12Step ==
    /\ fnOut = <<>>
    /\ fnIn.dg = "dg12"
    /\ fnOut' = <<emrtd_print_ef_dg12_info(fnIn.data, Len(fnIn.data))>>
    /\ UNCHANGED <<cmdvars, fnIn>>

NextFields == Dg11Step \/ Dg12Step

SpecFields == InitFields /\ [][NextFields]_vars

-----------------------------------------------------------------------------
(* emrtd_tag_to_dg on its own: every uint8_t tag *)

InitTag ==
    /\ AtRest
    /\ fnIn \in [tag : Byte]
    /\ fnOut = <<>>

TagStep ==
    /\ fnOut = <<>>
    /\ fnOut' = <<emrtd_tag_to_dg(fnIn.tag)>>
    /\ UNCHANGED <<cmdvars, fnIn>>

NextTag == TagStep

SpecTag == InitTag /\ [][NextTag]_vars

-----------------------------------------------------------------------------
(* emrtd_fileid_to_dg on its own: every file identifier 01xx, as emrtd_dump_file
   passes the identifier of the file it has just read *)

HexDigit == <<"0", "1", "2", "3", "4", "5", "6", "7",
              "8", "9", "A", "B", "C", "D", "E", "F">>

FileIds == {"01" \o HexDigit[a] \o HexDigit[b] : a, b \in DOMAIN HexDigit}

InitFileid ==
    /\ AtRest
    /\ fnIn \in [file : FileIds]
    /\ fnOut = <<>>

FileidStep ==
    /\ fnOut = <<>>
    /\ fnOut' = <<emrtd_fileid_to_dg(fnIn.file)>>
    /\ UNCHANGED <<cmdvars, fnIn>>

NextFileid == FileidStep

SpecFileid == InitFileid /\ [][NextFileid]_vars

-----------------------------------------------------------------------------
(* the scanning loops of emrtd_lds_get_data_by_tag and emrtd_parse_ef_sod_hashes,
   one iteration at a time *)

\* 84 and FF are length bytes neither length helper supports
ScanBytes == {4, 48, 128, 129, 132, 255}

ScanBuffers == UNION {[1..n -> ScanBytes] : n \in 0..MaxRawLen}

ScanInput(loop, buf, fill, entertoptag, skiptagcount) ==
    [loop |-> loop, datain |-> buf \o Beyond(Len(buf), fill), datainlen |-> Len(buf),
     tag1 |-> 48, entertoptag |-> entertoptag, skiptagcount |-> skiptagcount]

ScanInputs ==
    {ScanInput("lds", buf, fill, e, k) :
        buf \in ScanBuffers, fill \in {0, 132}, e \in BOOLEAN, k \in {0, 1}}
        \cup {ScanInput("hash", buf, 0, FALSE, 0) : buf \in ScanBuffers}

\* no call yet
InitScan ==
    /\ AtRest
    /\ fnIn = [loop |-> "none"]
    /\ fnOut = <<>>

\* the loop at its test, with the locals that decide how it goes on; unsupported: an
\* iteration so far met a length byte above 0x83
ScanAt(where, offset, skipcounter, unsupported) ==
    [pc |-> where, offset |-> offset, skipcounter |-> skipcounter,
     unsupported |-> unsupported]

\* int offset = 0; if (entertoptag) ..., resp. size_t offset = 0
ScanEntry(in, t) ==
    ScanAt("loop",
           IF in.entertoptag
           THEN t + emrtd_get_asn1_field_length(in.datain, in.datainlen, t)
           ELSE 0,
           0, FALSE)

\* a call with any of the inputs, up to the first loop test
ScanEnter ==
    /\ fnIn.loop = "none"
    /\ \E in \in ScanInputs :
          /\ fnIn' = in
          /\ fnOut' = <<ScanEntry(in, emrtd_lds_determine_tag_length(At(in.datain, 0)))>>
    /\ UNCHANGED cmdvars

\* one iteration of while (offset < datainlen) in emrtd_lds_get_data_by_tag
LdsIterAt(s, e_idlen, e_datalen, e_fieldlen, match, lenbyte) ==
    IF match /\ LdsSkipDone(s.skipcounter, fnIn.skiptagcount)
    THEN ScanAt("done", s.offset, s.skipcounter, s.unsupported \/ lenbyte > 131)
    ELSE ScanAt("loop", LdsNext(s.offset, e_idlen, e_datalen, e_fieldlen),
                IF match THEN s.skipcounter + 1 ELSE s.skipcounter,
                s.unsupported \/ lenbyte > 131)

LdsIterFrom(s, rest, e_idlen) ==
    LdsIterAt(s, e_idlen,
              emrtd_get_asn1_data_length(rest, fnIn.datainlen - s.offset, e_idlen),
              emrtd_get_asn1_field_length(rest, fnIn.datainlen - s.offset, e_idlen),
              At(fnIn.datain, s.offset) = fnIn.tag1, At(rest, e_idlen))

LdsIter ==
    /\ fnOut # <<>>
    /\ fnIn.loop = "lds"
    /\ fnOut[1].pc = "loop"
    /\ fnOut[1].offset < fnIn.datainlen
    /\ fnOut' = <<LdsIterFrom(fnOut[1],
                              Slice(fnIn.datain, fnOut[1].offset,
                                    Len(fnIn.datain) - fnOut[1].offset),
                              emrtd_lds_determine_tag_length(At(fnIn.datain, fnOut[1].offset)))>>
    /\ UNCHANGED <<cmdvars, fnIn>>

\* one iteration of while (offset < hashlistlen) in emrtd_parse_ef_sod_hashes. The
\* switch writes hashidstr, hash, hashlen and the table, none of which the loop test
\* or the advance reads
HashIterAt(s, e_datalen, e_fieldlen, lenbyte) ==
    ScanAt("loop", HashNext(s.offset, e_datalen, e_fieldlen), s.skipcounter,
           s.unsupported \/ lenbyte > 131)

HashIterFrom(s, rest, left) ==
    HashIterAt(s, emrtd_get_asn1_data_length(rest, left, 1),
               emrtd_get_asn1_field_length(rest, left, 1), At(rest, 1))

HashIter ==
    /\ fnOut # <<>>
    /\ fnIn.loop = "hash"
    /\ fnOut[1].pc = "loop"
    /\ fnOut[1].offset < fnIn.datainlen
    /\ LET hashlist == SubSeq(fnIn.datain, 1, fnIn.datainlen)
       IN  fnOut' = <<HashIterFrom(fnOut[1],
                                   ImageRead(hashlist, fnOut[1].offset,
                                             fnIn.datainlen - fnOut[1].offset + 8),
                                   fnIn.datainlen - fnOut[1].offset)>>
    /\ UNCHANGED <<cmdvars, fnIn>>

\* the loop test fails: return false, resp. return PM3_SUCCESS
ScanExit ==
    /\ fnOut # <<>>
    /\ fnOut[1].pc = "loop"
    /\ fnOut[1].offset >= fnIn.datainlen
    /\ fnOut' = <<[fnOut[1] EXCEPT !.pc = "done"]>>
    /\ UNCHANGED <<cmdvars, fnIn>>

NextScan == ScanEnter \/ LdsIter \/ HashIter \/ ScanExit

\* a call that has begun goes on until it returns
ScanGoesOn == LdsIter \/ HashIter \/ ScanExit

SpecScan == InitScan /\ [][NextScan]_vars /\ WF_vars(ScanGoesOn)

-----------------------------------------------------------------------------
(* emrtd_calculate_check_digit on its own *)

\* the characters of an MRZ field: '0'..'9', 'A'..'Z' and '<'
MrzChars == (48..57) \cup (65..90) \cup {60}

\* '0', '7', '9', 'A', 'Z', '<'
FewMrzChars == {48, 55, 57, 65, 90, 60}

\* "L898902C3"
IcaoSample == <<76, 56, 57, 56, 57, 48, 50, 67, 51>>

\* every string of up to 2 characters, the strings of 3 and 4 over a few characters,
\* and the sample document number
MrzStrings ==
    UNION {[1..n -> MrzChars] : n \in 0..2}
        \cup UNION {[1..n -> FewMrzChars] : n \in 3..MaxMrzLen}
        \cup {IcaoSample}

InitCheckDigit ==
    /\ AtRest
    /\ fnIn \in [data : MrzStrings]
    /\ fnOut = <<>>

CheckDigitStep ==
    /\ fnOut = <<>>
    /\ fnOut' = <<emrtd_calculate_check_digit(fnIn.data)>>
    /\ UNCHANGED <<cmdvars, fnIn>>

NextCheckDigit == CheckDigitStep

SpecCheckDigit == InitCheckDigit /\ [][NextCheckDigit]_vars

-----------------------------------------------------------------------------
(* pad_block on its own *)

\* inputs of every length up to MaxPadLen: zeros, 80s, and bytes that count up
PadInputs ==
    {[k \in 1..n |-> CASE v = "zeros" -> 0 [] v = "pads" -> 128 [] OTHER -> k] :
        n \in 0..MaxPadLen, v \in {"zeros", "pads", "count"}}

InitPad ==
    /\ AtRest
    /\ fnIn \in [input : PadInputs]
    /\ fnOut = <<>>

PadStep ==
    /\ fnOut = <<>>
    /\ fnOut' = <<pad_block(fnIn.input)>>
    /\ UNCHANGED <<cmdvars, fnIn>>

NextPad == PadStep

SpecPad == InitPad /\ [][NextPad]_vars

-----------------------------------------------------------------------------
(* retail_mac on its own *)

\* a key whose halves differ and a key whose halves are equal
MacKeys == {KIcc, [k \in 1..16 |-> 7]}

InitMac ==
    /\ AtRest
    /\ fnIn \in [key : MacKeys, input : PadInputs]
    /\ fnOut = <<>>

MacStep ==
    /\ fnOut = <<>>
    /\ fnOut' = <<retail_mac_des(fnIn.key, fnIn.input)>>
    /\ UNCHANGED <<cmdvars, fnIn>>

NextMac == MacStep

SpecMac == InitMac /\ [][NextMac]_vars

-----------------------------------------------------------------------------
(* emrtd_do_bac from the answer to EXTERNAL AUTHENTICATE on, on its own *)

\* M.ICC of an answer is the retail MAC of its cryptogram under K_MAC
MacRight(kmac, resp) == resp.mac = retail_mac(kmac, MacInput(<<>>, <<DO(0, 32, <<>>, resp.ct)>>))

\* the nonces of a handshake and the answers a card may give to them
BacInputs ==
    UNION {UNION {{[rnd_ic |-> ric, rnd_ifd |-> rifd, response |-> resp] :
                      resp \in BacAnswers(emrtd_deskey(KseedMrz, KENC_type),
                                          emrtd_deskey(KseedMrz, KMAC_type), rifd, ric)} :
                  rifd \in {rng(8), RndIc(MaxNonce + 1)}} :
           ric \in {RndIc(i) : i \in 1..MaxNonce}}

InitBac ==
    /\ AtRest
    /\ fnIn \in BacInputs
    /\ fnOut = <<>>

\* emrtd_external_authenticate returned true with fnIn.response; the caller's ssc,
\* ks_enc and ks_mac are as dumpHF_EMRTD and infoHF_EMRTD declare them
DoBacStep ==
    /\ fnOut = <<>>
    /\ fnOut' = <<BacFinish([ssc |-> ssc, ks_enc |-> ks_enc, ks_mac |-> ks_mac],
                            emrtd_deskey(KseedMrz, KENC_type), fnIn.rnd_ifd, fnIn.rnd_ic,
                            rng(16), fnIn.response)>>
    /\ UNCHANGED <<cmdvars, fnIn>>

NextBac == DoBacStep

SpecBac == InitBac /\ [][NextBac]_vars

-----------------------------------------------------------------------------
(* emrtd_read_file by lengths only: how far response[EMRTD_MAX_FILE_SIZE] is written
   for the length a file declares, on a card that serves every byte asked for *)

\* the 4 bytes of the probe: tag 61 and a length of 32, of 255 (81), of 34996, 35001
\* and 65535 (82), and the first two length bytes of 83 00 88 xx and 83 FF FF xx
ProbeHeaders ==
    {<<97, 32, 1, 2>>, <<97, 129, 255, 1>>, <<97, 130, 136, 180>>, <<97, 130, 136, 181>>,
     <<97, 130, 255, 255>>, <<97, 131, 0, 136>>, <<97, 131, 255, 255>>}

InitReadLen ==
    /\ AtRest
    /\ fnIn \in [header : ProbeHeaders, junk : Uninit]
    /\ fnOut = <<>>

\* emrtd_read_file from the probe's return to the loop: resplen = 4, datalen and
\* readlen from response[1..], offset = 4; written: the end of the last memcpy into
\* response
ReadLenStart(header, junk) ==
    LET mem     == header \o <<junk>>
        datalen == emrtd_get_asn1_data_length(mem, 4, 1)
        readlen == datalen - (3 - emrtd_get_asn1_field_length(mem, 4, 1))
    IN  [readlen |-> readlen, offset |-> 4, resplen |-> 4, written |-> 4,
         result |-> IF readlen > 0 THEN "running" ELSE "true"]

\* one turn of while (readlen > 0): toread, the READ BINARY (tempresplen = toread
\* on this card), memcpy(response + resplen, tempresponse, tempresplen) and the three
\* updates. A memcpy that ends past response[] is where the model stops ("overrun")
ReadLenChunk(r, ok) ==
    LET toread == Min(r.readlen, 118)
    IN  IF ~ok THEN [r EXCEPT !.result = "false"]
        ELSE [readlen |-> r.readlen - toread, offset |-> r.offset + toread,
              resplen |-> r.resplen + toread, written |-> r.resplen + toread,
              result |-> IF r.resplen + toread > EMRTD_MAX_FILE_SIZE THEN "overrun"
                         ELSE IF r.readlen - toread > 0 THEN "running" ELSE "true"]

ReadLenProbe ==
    /\ fnOut = <<>>
    /\ fnOut' = <<ReadLenStart(fnIn.header, fnIn.junk)>>
    /\ UNCHANGED <<cmdvars, fnIn>>

ReadLenStep ==
    /\ fnOut # <<>>
    /\ fnOut[1].result = "running"
    /\ \E ok \in BOOLEAN : fnOut' = <<ReadLenChunk(fnOut[1], ok)>>
    /\ UNCHANGED <<cmdvars, fnIn>>

NextReadLen == ReadLenProbe \/ ReadLenStep

SpecReadLen == InitReadLen /\ [][NextReadLen]_vars

-----------------------------------------------------------------------------
(* The hash table dg_hashes[16][64]: where emrtd_parse_ef_sod_hashes writes it and
   where the loop of infoHF_EMRTD reads it *)

\* sizeof(dg_hashes)
DgHashesSize == 16 * 64

\* the data-group numbers an EF_SOD entry may carry, the lengths its hash may have,
\* and the tags of registry entries that get to the hash check
TableInputs ==
    [id : {0, 1, 15, 16, 17, 255}, hashlen : {20, 64, 65}, tag : {96, 97, 111, 112}]

InitHashTable ==
    /\ AtRest
    /\ fnIn \in TableInputs
    /\ fnOut = <<>>

\* res = emrtd_parse_ef_sod_hashes(response, resplen, *dg_hashes, &hash_algo) on an
\* EF_SOD with one entry: acc is the byte ranges of the table it wrote
HashParseStep ==
    /\ fnOut = <<>>
    /\ LET image == SodOf(hashalg_table[1].descriptor,
                          HashEntry(fnIn.id, [k \in 1..fnIn.hashlen |-> k]))
           p     == emrtd_parse_ef_sod_hashes(image, Len(image), UninitHashes, 0)
       IN  fnOut' = <<[op |-> "parse", hashalgo |-> p.hashalgo, acc |-> p.writes]>>
    /\ UNCHANGED <<cmdvars, fnIn>>

\* memcmp(dg_hashes[dg->dgnum], hash_out, hashalg_table[hash_algo].hashlen) under
\* if (hash_algo != -1), for the registry entry dg of a listed tag: the range read
HashRowRead(dg, algo) ==
    IF algo = -1 THEN <<>>
    ELSE <<[at |-> dg_table[dg].dgnum * 64, len |-> hashalg_table[algo + 1].hashlen]>>

\* the loop body of infoHF_EMRTD on the file of tag fnIn.tag, read without error
HashReadStep ==
    /\ Len(fnOut) = 1
    /\ fnOut' = Append(fnOut, [op |-> "check", hashalgo |-> fnOut[1].hashalgo,
                               acc |-> HashRowRead(emrtd_tag_to_dg(fnIn.tag),
                                                   fnOut[1].hashalgo)])
    /\ UNCHANGED <<cmdvars, fnIn>>

NextHashTable == HashParseStep \/ HashReadStep

SpecHashTable == InitHashTable /\ [][NextHashTable]_vars

-----------------------------------------------------------------------------
(* emrtd_check_cc by bytes, up to the buffers of retail_mac *)

\* uint8_t message[256] of retail_mac
MessageSize == 256

\* a data object as the card sends it: tag, one length byte, len bytes
DoBytes(tag, len) == <<tag, len>> \o [k \in 1..len |-> 1]

\* secure-messaging responses: a DO'87' with the padding indicator and 0 to
\* MaxCcBlocks blocks of cryptogram or none, a DO'99' with the status word or an
\* empty one, and 8 bytes of MAC
CcResponses ==
    {d87 \o d99 \o Zeros(8) :
        d87 \in {DoBytes(135, 8 * n + 1) : n \in 0..MaxCcBlocks} \cup {<<>>},
        d99 \in {DoBytes(153, 2), DoBytes(153, 0)}}

\* responses too short to hold a MAC: what emrtd_exchange_commands hands on of a bare
\* status word (nothing), and the first 1 to 7 bytes of 99 02 90 00 and a MAC
ShortResponses == {SubSeq(<<153, 2, 144, 0, 0, 0, 0>>, 1, n) : n \in 0..7}

InitCc ==
    /\ AtRest
    /\ fnIn \in [rapdu : CcResponses \cup ShortResponses]
    /\ fnOut = <<>>

\* if (*(rapdu + length) == 0x99) length2 += 2 + *(rapdu + length + 1); and
\* klength = length + length2 + 8
CcKLength(rapdu, length) ==
    length + 8 + (IF ImageRead(rapdu, length, 1) = <<153>>
                  THEN 2 + ImageRead(rapdu, length + 1, 1)[1] ELSE 0)

\* emrtd_check_cc: if (*(rapdu) == 0x87) length += 2 + *(rapdu + 1), then klength
CcInputLength(rapdu) ==
    CcKLength(rapdu, IF ImageRead(rapdu, 0, 1) = <<135>>
                     THEN 2 + ImageRead(rapdu, 1, 1)[1] ELSE 0)

\* retail_mac(key, k, klength, cc): blocksize is where pad_block stops writing message
CcStep ==
    /\ fnOut = <<>>
    /\ fnOut' = <<[klength |-> CcInputLength(fnIn.rapdu),
                   blocksize |-> Len(pad_block(Zeros(CcInputLength(fnIn.rapdu))))]>>
    /\ UNCHANGED <<cmdvars, fnIn>>

\* return memcmp(cc, rapdu + (rapdulength - 8), 8) == 0: from is where the 8 bytes
\* compared begin in the response buffer. Whether they equal cc is the card's doing
\* when they are its MAC, and anything when they lie before the buffer
CcCompare(rapdulength, equal) == [from |-> rapdulength - 8, ok |-> equal]

CcCompareStep ==
    /\ Len(fnOut) = 1
    /\ \E equal \in BOOLEAN :
        fnOut' = Append(fnOut, CcCompare(Len(fnIn.rapdu), equal))
    /\ UNCHANGED <<cmdvars, fnIn>>

NextCc == CcStep \/ CcCompareStep

SpecCc == InitCc /\ [][NextCc]_vars

-----------------------------------------------------------------------------
(* emrtd_parse_ef_sod_hashes and its caller on EF_SOD files that lack one of the
   nested elements *)

\* what may stand where the element looked for is missing: nothing, or elements of
\* other tags
SodFillers ==
    {<<>>, <<2, 1, 0>>, <<5, 0>>, <<2, 1, 0, 5, 0>>, Tlv(49, <<1>>), Tlv(6, <<42>>),
     Tlv(49, <<2, 1, 0>>), <<5, 0, 2, 1, 0>>}

\* an EF_SOD that is cut at the level-th lookup of SodPath: filler stands in the
\* place of the element
SodCut(level, filler) ==
    CASE level = 1 -> Tlv(119, filler)
      [] level = 2 -> Tlv(119, Tlv(48, filler))
      [] level = 3 -> Tlv(119, Tlv(48, Tlv(160, Tlv(48, <<2, 1, 3>> \o filler))))
      [] level = 4 -> Tlv(119, Tlv(48, Tlv(160, Tlv(48, <<2, 1, 3>> \o Tlv(48, filler)))))
      [] level = 5 -> Tlv(119, Tlv(48, Tlv(160, Tlv(48, <<2, 1, 3>>
                                                        \o Tlv(48, Tlv(160, filler))))))

InitSodCut ==
    /\ AtRest
    /\ fnIn \in {[image |-> SodCut(l, f), missing |-> l] : l \in 1..Len(SodPath), f \in SodFillers}
                \cup {[image |-> SodImage(k), missing |-> 0] : k \in SodKinds}
    /\ fnOut = <<>>

\* res = emrtd_parse_ef_sod_hashes(response, resplen, *dg_hashes, &hash_algo);
\* if (res != PM3_SUCCESS) PrintAndLogEx(ERR, "Failed to read hash list ...")
SodReport(p) ==
    [res |-> p.res, reported |-> ~IsPm3Success(p.res), hashalgo |-> p.hashalgo,
     hashes |-> p.hashes, writes |-> p.writes]

SodParseStep ==
    /\ fnOut = <<>>
    /\ fnOut' = <<SodReport(emrtd_parse_ef_sod_hashes(fnIn.image, Len(fnIn.image),
                                                      UninitHashes, 0))>>
    /\ UNCHANGED <<cmdvars, fnIn>>

\* the loop body of infoHF_EMRTD on EF_DG1, read without error, after that parse
SodCheckStep ==
    /\ Len(fnOut) = 1
    /\ \E fill \in Uninit :
        fnOut' = Append(fnOut,
                        HashCheck([Cur EXCEPT !.filelist = <<97>>, !.idx = 0,
                                              !.hash_algo = fnOut[1].hashalgo,
                                              !.dg_hashes = fnOut[1].hashes],
                                  TRUE, Dg1File, fill))
    /\ UNCHANGED <<cmdvars, fnIn>>

NextSodCut == SodParseStep \/ SodCheckStep

SpecSodCut == InitSodCut /\ [][NextSodCut]_vars

-----------------------------------------------------------------------------
(* _emrtd_secure_read_binary_decrypt on its own: answers with and without a DO'87' *)

\* the data objects of an answer to a secure READ BINARY of n bytes: DO'87' and
\* DO'99'; DO'99' alone; a DO'87' with padding indicator 02; a DO'85' in its place
ReadAnswerDos(kenc, n) ==
    LET d87 == DO87(kenc, [k \in 1..n |-> k])
    IN  {<<d87, DO99>>, <<DO99>>, <<[d87 EXCEPT !.val = <<2>>], DO99>>,
         <<[d87 EXCEPT !.tag = 133], DO99>>}

InitDecrypt ==
    /\ AtRest
    /\ fnIn \in UNION {UNION {{[ssc |-> c, offset |-> o, bytes_to_read |-> n, rapdu |-> a] :
                                 a \in SmAnswers(emrtd_deskey(KIcc, KMAC_type), CommandSsc(c), d)} :
                              d \in ReadAnswerDos(emrtd_deskey(KIcc, KENC_type), n)} :
                       c \in {Zeros(8), [i \in 1..8 |-> 255]}, o \in {0, 4}, n \in {4, 8, 118}}
    /\ fnOut = <<>>

DecryptStep ==
    /\ fnOut = <<>>
    /\ fnOut' = <<_emrtd_secure_read_binary_decrypt(emrtd_deskey(KIcc, KENC_type),
                                                    emrtd_deskey(KIcc, KMAC_type),
                                                    fnIn.ssc, fnIn.offset,
                                                    fnIn.bytes_to_read, "ok", fnIn.rapdu)>>
    /\ UNCHANGED <<cmdvars, fnIn>>

NextDecrypt == DecryptStep

SpecDecrypt == InitDecrypt /\ [][NextDecrypt]_vars

-----------------------------------------------------------------------------
(* Properties *)

IsSm(a) == a.sm

IsFileApdu(a) == a.ins \in {"SELECT", "READ BINARY"}

IsBacApdu(a) == a.ins \in {"GET CHALLENGE", "EXTERNAL AUTHENTICATE"}

\* the command has returned
Returned == stage = "done"

\* the MAC the answer of the last secure command had to carry: over the counter the
\* answer was checked with, followed by the data objects of the answer
ExpectedMac == retail_mac(ks_mac, MacInput(last.resp_ssc, last.rapdu.dos))

\* C1: a secure READ BINARY answer whose MAC is not RetailMAC(KSmac, SSC || DO'87' ||
\* DO'99') makes emrtd_check_cc fail, is not decrypted, leaves the output untouched,
\* and emrtd_read_file returns false.
C1_BadMacAbortsRead ==
    (last.op = "read" /\ last.exchanged /\ last.rapdu.mac # ExpectedMac)
        => /\ ~last.ok
           /\ ~last.decrypted
           /\ last.dataout = <<>>
           /\ rf.result = "false"

C1_Witness ==
    /\ last.op = "read"
    /\ last.exchanged
    /\ last.rapdu.mac # ExpectedMac
    /\ last.rapdu.mac.key = ks_mac

\* C2: after authentication, a SELECT or READ BINARY of any file that fails by
\* transport failure or MAC mismatch is the last APDU sent, and the command returns
\* an error; in the loop over the file list as well as for EF_COM and EF_SOD.
C2_AnyFailureEndsTheRun ==
    \A i \in DOMAIN apdus :
        (apdus[i].st \in {"efcom", "sod", "loop"} /\ IsFileApdu(apdus[i])
            /\ apdus[i].res \in {"transport", "mac"})
        => (i = Len(apdus) /\ Returned /\ ret = "PM3_ESOFT")

\* C3 as stated: a failed secure-messaging command leaves SSC as it was before the call.
C3_FailureKeepsSsc ==
    (last.op # "none" /\ ~last.ok) => ssc = last.before

\* C3 amended: a failed secure-messaging command does not restore SSC: after a failed
\* exchange SSC is the value before the call plus one, after a MAC mismatch plus two.
C3_FailureKeepsIncrements ==
    (last.op # "none" /\ ~last.ok)
        => ssc = IF last.exchanged THEN Inc64(Inc64(last.before)) ELSE Inc64(last.before)

C3_Witness ==
    /\ last.op = "select"
    /\ ~last.ok
    /\ last.exchanged
    /\ ssc = Inc64(Inc64(last.before))

\* C4: emrtd_bump_ssc(v) is (v + 1) mod 2^64 on the 8 big-endian bytes.
C4_BumpIsIncrement ==
    fnOut # <<>> => fnOut = Inc64(fnIn)

\* C5: a secure command started with counter s is MACed over (s+1) || head || data
\* object, its answer is checked with s+2, and after success SSC is s+2.
C5_IncrementThenUse ==
    last.op # "none"
        => /\ last.cmd_mac.key = ks_mac
           /\ Len(last.cmd_mac.msg.pre) = 16
           /\ SubSeq(last.cmd_mac.msg.pre, 1, 8) = Inc64(last.before)
           /\ Len(last.cmd_mac.msg.dos) = 1
           /\ last.cmd_ssc = Inc64(last.before)
           /\ last.exchanged => last.resp_ssc = Inc64(Inc64(last.before))
           /\ last.ok => ssc = Inc64(Inc64(last.before))

C5_Witness ==
    /\ last.op = "read"
    /\ last.ok
    /\ ssc = Inc64(Inc64(last.before))
    /\ \E i \in DOMAIN apdus : apdus[i].sm /\ apdus[i].res # "ok"

\* the secure commands of the run, in the order they were sent
SmApdus == SelectSeq(apdus, IsSm)

\* the counter emrtd_do_bac seeded
SeededSsc == Slice(bac.rnd_ic, 4, 4) \o Slice(bac.rnd_ifd, 4, 4)

\* C6: within a session no two secure commands are MACed with the same SSC, and SSC
\* moves only by increments: each command is MACed with the counter one or two
\* increments after the one before it, the first with the seeded counter plus one.
C6_NoSscReuse ==
    LET sm == SmApdus
    IN  /\ \A i, j \in DOMAIN sm : i < j => sm[i].ssc # sm[j].ssc
        /\ \A i \in DOMAIN sm :
            IF i = 1 THEN sm[i].ssc = Inc64(SeededSsc)
            ELSE sm[i].ssc \in {Inc64(sm[i - 1].ssc), Inc64(Inc64(sm[i - 1].ssc))}
        /\ Len(sm) > 0 => ssc \in {sm[Len(sm)].ssc, Inc64(sm[Len(sm)].ssc)}

C6_Witness ==
    LET sm == SmApdus
    IN  /\ Len(sm) >= 4
        /\ \E i \in DOMAIN sm : i < Len(sm) /\ sm[i].res = "transport"
        /\ \E i \in DOMAIN sm : i < Len(sm) /\ sm[i].res = "mac"

\* C7 as stated: emrtd_do_bac succeeds only if the first 8 bytes of the decrypted
\* answer equal RND.IFD.
C7_First8AreRndIfd ==
    bac.state = "ok" => Slice(bac.dec_output, 0, 8) = bac.rnd_ifd

\* C7 amended: emrtd_do_bac succeeds only if bytes 8..15 of the decrypted answer
\* equal RND.IFD; on mismatch it fails and derives no session keys.
C7_Bytes8To15AreRndIfd ==
    /\ bac.state = "ok" => Slice(bac.dec_output, 8, 8) = bac.rnd_ifd
    /\ (bac.dec_output # <<>> /\ Slice(bac.dec_output, 8, 8) # bac.rnd_ifd)
        => (bac.state = "fail" /\ ks_enc = ZeroKey /\ ks_mac = ZeroKey)

C7_Witness ==
    /\ bac.state = "fail"
    /\ bac.dec_output # <<>>
    /\ Slice(bac.dec_output, 0, 8) = bac.rnd_ifd
    /\ Slice(bac.dec_output, 8, 8) # bac.rnd_ifd

\* emrtd_do_bac has just returned: the last APDU is one of its two
BacJustReturned ==
    /\ bac.state \in {"ok", "fail"}
    /\ Len(apdus) > 0
    /\ IsBacApdu(apdus[Len(apdus)])

\* C8: emrtd_do_bac returns either success with KSenc, KSmac and SSC written, or
\* failure with the caller's KSenc, KSmac and SSC as they were at the call.
C8_BacAllOrNothing ==
    /\ (Len(apdus) > 0 /\ apdus[Len(apdus)].ins = "EXTERNAL AUTHENTICATE")
        => bac.state \in {"ok", "fail"}
    /\ (BacJustReturned /\ bac.state = "ok")
        => /\ ks_enc.type = KENC_type
           /\ ks_mac.type = KMAC_type
           /\ ks_enc.seed = ks_mac.seed
           /\ ssc = SeededSsc
           /\ apdus[Len(apdus)].res = "ok"
    /\ bac.state = "fail"
        => /\ ssc = bac.pre.ssc
           /\ ks_enc = bac.pre.ks_enc
           /\ ks_mac = bac.pre.ks_mac

C8_Witness ==
    /\ BacJustReturned
    /\ bac.state = "fail"
    /\ apdus[Len(apdus)].res = "mismatch"
    /\ SeededSsc # bac.pre.ssc

\* C9: one emrtd_do_bac sends at most one GET CHALLENGE and at most one EXTERNAL
\* AUTHENTICATE, the latter only after GET CHALLENGE succeeded, and no step again
\* after it failed.
C9_BacIsLinear ==
    /\ Cardinality({i \in DOMAIN apdus : apdus[i].ins = "GET CHALLENGE"}) <= 1
    /\ Cardinality({i \in DOMAIN apdus : apdus[i].ins = "EXTERNAL AUTHENTICATE"}) <= 1
    /\ \A j \in DOMAIN apdus :
        apdus[j].ins = "EXTERNAL AUTHENTICATE"
            => \E i \in 1..(j - 1) : apdus[i].ins = "GET CHALLENGE" /\ apdus[i].res = "ok"
    /\ \A i, j \in DOMAIN apdus :
        (i < j /\ IsBacApdu(apdus[i]) /\ apdus[i].res # "ok") => ~IsBacApdu(apdus[j])

C9_Witness ==
    /\ Returned
    /\ \E i \in DOMAIN apdus : apdus[i].ins = "GET CHALLENGE" /\ apdus[i].res # "ok"

\* C10: when EXTERNAL AUTHENTICATE is rejected or the challenge check fails, nothing
\* is sent afterwards (no SELECT, no READ BINARY, no second handshake), the field is
\* dropped and the command returns PM3_ESOFT.
C10_AuthFailureIsFatal ==
    \A i \in DOMAIN apdus :
        (apdus[i].ins = "EXTERNAL AUTHENTICATE" /\ apdus[i].res # "ok")
            => (i = Len(apdus) /\ Returned /\ ret = "PM3_ESOFT" /\ ~field)

C10_Witness ==
    /\ Returned
    /\ field = FALSE
    /\ \E i \in DOMAIN apdus : apdus[i].ins = "EXTERNAL AUTHENTICATE" /\ apdus[i].res = "sw"

\* C11: after a successful emrtd_do_bac, SSC is bytes 4..7 of the challenge that GET
\* CHALLENGE returned in this handshake followed by bytes 4..7 of the RND.IFD sent.
C11_SscSeededFromNonces ==
    (BacJustReturned /\ bac.state = "ok")
        => /\ \E i \in 1..MaxRndIc : bac.rnd_ic = RndIc(i)
           /\ bac.rnd_ifd = rng(8)
           /\ \A k \in 1..4 : ssc[k] = bac.rnd_ic[4 + k] /\ ssc[4 + k] = bac.rnd_ifd[4 + k]
           /\ Len(ssc) = 8

C11_Witness ==
    /\ BacJustReturned
    /\ bac.state = "ok"
    /\ ssc = <<RndIc(1)[5], RndIc(1)[6], RndIc(1)[7], RndIc(1)[8], 0, 0, 0, 0>>

\* the session keys emrtd_do_bac derived in this run
DerivedKeys ==
    LET kseed == [x \in 1..16 |-> BXor(rng(16)[x], Slice(bac.dec_output, 16, 16)[x])]
    IN  [ks_enc |-> emrtd_deskey(kseed, KENC_type), ks_mac |-> emrtd_deskey(kseed, KMAC_type)]

\* C12: ks_enc and ks_mac are written only inside emrtd_do_bac, when it succeeds: no
\* SELECT, READ BINARY, MAC check, file read or dump step changes them.
C12_KeysWrittenOnlyByBac ==
    [][(ks_enc' # ks_enc \/ ks_mac' # ks_mac)
        => (pc = "ext_auth" /\ bac'.state = "ok" /\ ks_enc' = DerivedKeys'.ks_enc
            /\ ks_mac' = DerivedKeys'.ks_mac)]_vars

C12_Witness ==
    /\ bac.state = "ok"
    /\ stage = "loop"
    /\ last.op = "read"
    /\ last.ok
    /\ ks_enc = DerivedKeys.ks_enc
    /\ ks_mac = DerivedKeys.ks_mac
    /\ \E i \in DOMAIN apdus : apdus[i].sm /\ apdus[i].res = "mac"

\* C15: emrtd_lds_get_data_by_tag reads and copies only bytes at indices below
\* datainlen, whatever the buffer holds; where a header or a value would pass the end
\* of the buffer it returns false.
C15_ReadsStayInBuffer ==
    fnOut # <<>> => fnOut[1].top < fnIn.datainlen

\* does element e carry the tag the call looks for
TagMatches(e, in) ==
    e.tag[1] = in.tag1 /\ (in.twobytetag => (Len(e.tag) = 2 /\ e.tag[2] = in.tag2))

\* the elements with the tag looked for, in buffer order
Matching(in) == SelectSeq(in.elems, LAMBDA e : TagMatches(e, in))

\* the (skiptagcount+1)-th element with the tag, or false when there are fewer
Expected(in) ==
    IF Len(Matching(in)) > in.skiptagcount
    THEN [found |-> TRUE, data |-> Matching(in)[in.skiptagcount + 1].val]
    ELSE [found |-> FALSE, data |-> <<>>]

\* C16: for a well-formed buffer of sibling elements and skiptagcount = k the call
\* returns value and length of the (k+1)-th element with the tag, and false when
\* fewer than k+1 elements have it.
C16_SkipReturnsNextMatch ==
    (fnOut # <<>> /\ fnIn.wf /\ ~fnIn.entertoptag)
        => /\ fnOut[1].found = Expected(fnIn).found
           /\ fnOut[1].data = Expected(fnIn).data
           /\ fnOut[1].top < fnIn.datainlen

C16_Witness ==
    /\ fnOut # <<>>
    /\ fnIn.wf
    /\ ~fnIn.entertoptag
    /\ fnIn.skiptagcount = 1
    /\ fnIn.tag1 = 48
    /\ Len(Matching(fnIn)) = 2
    /\ Matching(fnIn)[1].val # Matching(fnIn)[2].val
    /\ fnOut[1].found
    /\ fnOut[1].data = Matching(fnIn)[2].val

\* is byte t one of the bytes of value v
OccursIn(t, v) == \E i \in DOMAIN v : v[i] = t

\* C17: with entertoptag the call skips one outer tag (1 or 2 bytes) and its length
\* field and matches the direct children only: a tag that occurs only inside the
\* value of a child is not matched, the call returns false.
C17_EnterTopTagChildrenOnly ==
    (fnOut # <<>> /\ fnIn.wf /\ fnIn.entertoptag)
        => /\ fnOut[1].found = Expected(fnIn).found
           /\ fnOut[1].data = Expected(fnIn).data
           /\ Matching(fnIn) = <<>> => ~fnOut[1].found

C17_Witness ==
    /\ fnOut # <<>>
    /\ fnIn.wf
    /\ fnIn.entertoptag
    /\ At(fnIn.datain, 0) = 127
    /\ fnIn.tag1 = 4
    /\ Matching(fnIn) = <<>>
    /\ \E i \in DOMAIN fnIn.elems : OccursIn(4, fnIn.elems[i].val)
    /\ ~fnOut[1].found

\* the length field decoded in fnIn
LenField(k) == At(fnIn.datain, fnIn.offset + k)

\* C18: emrtd_get_asn1_data_length gives b for a length byte b <= 7F, xx for 81 xx,
\* 256*xx+yy for 82 xx yy, 65536*xx+256*yy+zz for 83 xx yy zz, and for 80 the number of
\* bytes that remain in the buffer (after the length byte, or counted from it).
C18_DataLengthDecoded ==
    fnOut # <<>>
        => LET b == LenField(0)
               n == fnOut[1].datalen
           IN  /\ b <= 127 => n = b
               /\ b = 129 => n = LenField(1)
               /\ b = 130 => n = 256 * LenField(1) + LenField(2)
               /\ b = 131 => n = 65536 * LenField(1) + 256 * LenField(2) + LenField(3)
               /\ b = 128 => n \in {fnIn.datainlen - fnIn.offset - 1,
                                    fnIn.datainlen - fnIn.offset}

\* the READ BINARY commands of the call, in order
Reads == SelectSeq(apdus, LAMBDA a : a.ins = "READ BINARY")

\* C13: in secure mode, for a file with a one-byte tag and a length L in f bytes
\* (f in 1..4, 1 + f + L >= 4), emrtd_read_file reads 4 bytes at offset 0, then chunks
\* of 1..118 bytes each starting where the one before ended, and returns exactly
\* 1 + f + L bytes.
C13_ProbeThenContiguousChunks ==
    (fnOut # <<>> /\ fnIn.use_secure /\ fnOut[1].ret)
        => /\ Reads[1].offset = 0
           /\ Reads[1].le = 4
           /\ \A i \in 2..Len(Reads) :
                /\ Reads[i].le \in 1..118
                /\ Reads[i].offset = Reads[i - 1].offset + Reads[i - 1].le
           /\ fnOut[1].dataoutlen = 1 + fnIn.f + fnIn.L
           /\ SubSeq(fnOut[1].dataout, 1, fnOut[1].dataoutlen) = fnIn.image

\* C14: when a READ BINARY of the file fails, the probe or a later chunk,
\* emrtd_read_file returns false, sends no READ BINARY after it, and the caller's
\* buffer and length are as they were before the call.
C14_FailedReadReturnsNothing ==
    \A i \in DOMAIN apdus :
        apdus[i].res # "ok"
            => /\ i = Len(apdus)
               /\ fnOut # <<>>
               /\ ~fnOut[1].ret
               /\ fnOut[1].dataout = fnIn.dataout
               /\ fnOut[1].dataoutlen = fnIn.dataoutlen

C14_Witness ==
    /\ Len(apdus) >= 2
    /\ apdus[Len(apdus)].res # "ok"
    /\ Len(rf.response) >= 4
    /\ fnOut # <<>>
    /\ ~fnOut[1].ret
    /\ fnOut[1].dataout = StaleOut

\* the command was one of the two info commands
InfoRun == op \in {"info", "offline"}

\* the passes of the loop that tried to read the file at index i of the file list
ChecksOf(i) == {j \in DOMAIN checks : checks[j].idx = i}

\* a check that was made and failed
Mismatch(j) == checks[j].checked /\ ~checks[j].passed

\* the registry entry of the tag at index i of the file list takes part in the info
\* loop of command o
InfoReads(o, i) ==
    LET dg == emrtd_tag_to_dg(filelist[i + 1])
    IN  /\ dg # NoDg
        /\ ~dg_table[dg].pace
        /\ ~dg_table[dg].eac
        /\ o = "info" => dg_table[dg].fastdump

\* C19: in infoHF_EMRTD and infoHF_EMRTD_offline a hash mismatch for one data group
\* does not stop the loop: every later data group of the file list is still read and,
\* when the read succeeds, verified, and the command returns PM3_SUCCESS.
C19_MismatchDoesNotStopLoop ==
    \A j \in DOMAIN checks :
        (InfoRun /\ Returned /\ Mismatch(j))
            => /\ ret = "PM3_SUCCESS"
               /\ \A i \in (checks[j].idx + 1)..(Len(filelist) - 1) :
                    InfoReads(op, i)
                        => \E k \in ChecksOf(i) : checks[k].read => checks[k].checked

C19_Witness ==
    /\ op = "info"
    /\ Returned
    /\ ret = "PM3_SUCCESS"
    /\ \E j, k \in DOMAIN checks :
        /\ j < k
        /\ Mismatch(j)
        /\ checks[k].checked
        /\ checks[k].passed

\* the hash the EF_SOD of the card records for data group dgnum
Recorded(sod, dgnum) ==
    LET k == CHOOSE x \in SodKinds : SodImage(x) = sod
    IN  CASE dgnum = 1  -> k.h1
          [] dgnum = 2  -> hasher(0, LongFile)
          [] dgnum = 11 -> hasher(0, Dg11File)

\* every check of the run digested the bytes just read and compared them with the
\* hash EF_SOD records under the entry's data-group number, and was made exactly
\* when the read succeeded and the hash algorithm was recognised
ChecksAreRight ==
    \A j \in DOMAIN checks :
        /\ checks[j].checked <=> (checks[j].read /\ hash_algo # -1)
        /\ checks[j].checked
            => /\ checks[j].digest = hasher(hash_algo, checks[j].data)
               /\ checks[j].stored = Recorded(card.sod, checks[j].dgnum)
               /\ checks[j].passed <=> (checks[j].digest = checks[j].stored)

\* C20 as stated: in info mode, online and offline alike, a data group listed in EF_COM
\* is read and its digest checked iff its registry entry has fastdump set and pace and
\* eac clear (and a hash algorithm was recognised); the digest of the bytes just read
\* is compared with the EF_SOD hash recorded under the entry's data-group number.
C20_CheckedIffFastdump ==
    (InfoRun /\ Returned /\ ret = "PM3_SUCCESS")
        => /\ \A i \in 0..(Len(filelist) - 1) :
                LET dg == emrtd_tag_to_dg(filelist[i + 1])
                IN  ChecksOf(i) # {}
                        <=> (/\ dg # NoDg
                             /\ dg_table[dg].fastdump
                             /\ ~dg_table[dg].pace
                             /\ ~dg_table[dg].eac)
           /\ ChecksAreRight

\* C20, amended: infoHF_EMRTD reads and checks a listed data group iff its registry
\* entry has fastdump set and pace and eac clear; infoHF_EMRTD_offline does not look at
\* fastdump and reads and checks it iff pace and eac are clear. In both the check is
\* made when the read succeeded and a hash algorithm was recognised, and compares the
\* digest of the bytes just read with the EF_SOD hash recorded under the entry's
\* data-group number.
C20_CheckedIffEligible ==
    (InfoRun /\ Returned /\ ret = "PM3_SUCCESS")
        => /\ \A i \in 0..(Len(filelist) - 1) : ChecksOf(i) # {} <=> InfoReads(op, i)
           /\ ChecksAreRight

C20_Witness ==
    /\ op = "offline"
    /\ Returned
    /\ ret = "PM3_SUCCESS"
    /\ \E j, k \in DOMAIN checks :
        /\ checks[j].tag = 117
        /\ checks[j].checked
        /\ checks[j].passed
        /\ checks[k].tag = 97
        /\ checks[k].checked

\* the contents of an element without the 05 00 they end with, if they do
Dropped(c) ==
    IF Len(c) >= 2 /\ SubSeq(c, Len(c) - 1, Len(c)) = <<5, 0>>
    THEN SubSeq(c, 1, Len(c) - 2) ELSE c

\* the table entries whose descriptor is what the algorithm-identifier element holds
Selected ==
    {i \in 0..(Len(hashalg_table) - 1) :
        fnIn.present /\ Dropped(fnIn.contents) = hashalg_table[i + 1].descriptor}

\* C21: emrtd_parse_ef_sod_hash_algo selects table entry i iff the contents of the
\* algorithm-identifier element, without a trailing 05 00, are byte for byte the
\* descriptor of entry i; otherwise the algorithm is -1, and then the data group read
\* next is reported neither as verified nor as failed.
C21_AlgorithmByDescriptor ==
    Len(fnOut) >= 1
        => /\ \A i \in 0..(Len(hashalg_table) - 1) : fnOut[1].hashalgo = i <=> i \in Selected
           /\ Selected = {} => fnOut[1].hashalgo = -1
           /\ (Len(fnOut) = 2 /\ fnOut[1].hashalgo = -1)
                => ~fnOut[2].checked /\ ~fnOut[2].passed

C21_Witness ==
    /\ Len(fnOut) = 2
    /\ fnIn.contents = hashalg_table[2].descriptor \o <<5, 0>>
    /\ fnOut[1].hashalgo = 1
    /\ fnOut[2].checked

\* the listed tags that are in the file, in the order of the list
ListedPresent == SelectSeq(fnIn.list, LAMBDA t : t \in fnIn.present)

\* C22: in emrtd_print_ef_dg11_info and emrtd_print_ef_dg12_info a tag of the tag list
\* that is not found in the file is skipped: nothing is printed or saved for it, in
\* particular not the value of a tag processed before it, and the other tags of the
\* list are still processed, each with its own value.
C22_MissingTagIsSkipped ==
    fnOut # <<>>
        => /\ Len(fnOut[1].out) = Len(ListedPresent)
           /\ \A k \in DOMAIN fnOut[1].out :
                /\ fnOut[1].out[k].tag = ListedPresent[k]
                /\ fnOut[1].out[k].value = ValueOf(ListedPresent[k])

\* the same for the lists in which no tag follows a tag that was found and is then
\* missing itself
C22_NothingStale ==
    (fnOut # <<>>
        /\ \A j, k \in DOMAIN fnIn.list :
              (j < k /\ fnIn.list[j] \in fnIn.present) => fnIn.list[k] \in fnIn.present)
        => /\ Len(fnOut[1].out) = Len(ListedPresent)
           /\ \A k \in DOMAIN fnOut[1].out :
                /\ fnOut[1].out[k].tag = ListedPresent[k]
                /\ fnOut[1].out[k].value = ValueOf(ListedPresent[k])

\* the entries of dg_table with tag t
WithTag(t) == {i \in DOMAIN dg_table : dg_table[i].tag = t}

\* C23: no two entries of dg_table have the same tag, except EF_CardAccess and
\* EF_CardSecurity with FF; so for every tag other than FF emrtd_tag_to_dg returns the
\* only entry with that tag, or NULL when there is none.
C23_TagsAreUnique ==
    /\ \A i, j \in DOMAIN dg_table :
        (i # j /\ dg_table[i].tag = dg_table[j].tag)
            => /\ dg_table[i].tag = 255
               /\ {dg_table[i].filename, dg_table[j].filename}
                    = {"EF_CardAccess", "EF_CardSecurity"}
    /\ (fnOut # <<>> /\ fnIn.tag # 255)
        => IF WithTag(fnIn.tag) = {} THEN fnOut[1] = NoDg
           ELSE WithTag(fnIn.tag) = {fnOut[1]}

C23_Witness ==
    /\ fnOut # <<>>
    /\ fnIn.tag = 119
    /\ fnOut[1] = EF_SOD

\* 'A'..'Z' are 10..35, a digit is its value, '<' is 0
IcaoValue(c) ==
    IF c \in 65..90 THEN 10 + (c - 65)
    ELSE IF c \in 48..57 THEN c - 48
    ELSE 0

RECURSIVE IcaoSum(_, _)
\* the weighted sum over the first n characters of data, weights 7, 3, 1 by position
IcaoSum(data, n) ==
    IF n = 0 THEN 0
    ELSE IcaoSum(data, n - 1) + IcaoValue(data[n]) * <<7, 3, 1>>[((n - 1) % 3) + 1]

\* C24: emrtd_calculate_check_digit returns the sum of value(c_i) * [7,3,1][i mod 3]
\* modulo 10, with 'A'..'Z' as 10..35, digits as their value and '<' as 0; the result
\* is in 0..9 for every string over [0-9A-Z<], and it is 6 for "L898902C3".
C24_CheckDigit ==
    fnOut # <<>>
        => /\ fnOut[1] = IcaoSum(fnIn.data, Len(fnIn.data)) % 10
           /\ fnOut[1] \in 0..9
           /\ fnIn.data = IcaoSample => fnOut[1] = 6

C24_Witness ==
    /\ fnOut = <<6>>
    /\ fnIn.data = IcaoSample

\* C25: pad_block appends 80 and then zero bytes, always: for every input length n the
\* returned length is n + (8 - n mod 8), a multiple of 8 greater than n (a whole block
\* of padding when n is a multiple of 8), and the first n bytes are the input.
C25_PadAlwaysAdded ==
    fnOut # <<>>
        => LET n   == Len(fnIn.input)
               out == fnOut[1]
           IN  /\ Len(out) = n + (8 - (n % 8))
               /\ Len(out) % 8 = 0
               /\ Len(out) > n
               /\ (n % 8 = 0) => Len(out) = n + 8
               /\ SubSeq(out, 1, n) = fnIn.input
               /\ out[n + 1] = 128
               /\ \A k \in (n + 2)..Len(out) : out[k] = 0

C25_Witness ==
    /\ fnOut # <<>>
    /\ Len(fnIn.input) = 16
    /\ Len(fnOut[1]) = 24
    /\ fnIn.input[16] = 128

RECURSIVE ChainH(_, _, _)
\* H_0 is all zero, H_i = E_K0(H_(i-1) xor B_i), B_i the i-th 8 bytes of padded
ChainH(K0, padded, i) ==
    IF i = 0 THEN Block([x \in 1..8 |-> 0])
    ELSE des_encrypt_ecb(K0, BlockXor(ChainH(K0, padded, i - 1),
                                      Block(SubSeq(padded, 8 * i - 7, 8 * i))))

\* C26: with single DES as an abstract block function, retail_mac(key, msg) is
\* E_K0(D_K1(H_n)), K0 and K1 the first and the last 8 bytes of the key, B_1..B_n the
\* blocks of msg padded by pad_block, H_0 all zero and H_i = E_K0(H_(i-1) xor B_i);
\* the output is one block of 8 bytes.
C26_RetailMac ==
    fnOut # <<>>
        => LET K0     == SubSeq(fnIn.key, 1, 8)
               K1     == SubSeq(fnIn.key, 9, 16)
               padded == pad_block(fnIn.input)
           IN  /\ fnOut[1] = des_encrypt_ecb(K0,
                                des_decrypt_ecb(K1, ChainH(K0, padded, Len(padded) \div 8)))
               /\ fnOut[1].f = "E"

C26_Witness ==
    /\ fnOut # <<>>
    /\ fnIn.key = KIcc
    /\ Len(fnIn.input) = 17
    /\ fnOut[1].in.in.in.a.in.a.f = "E"

\* C27: during dumpHF_EMRTD and infoHF_EMRTD a keypress between two data-group reads
\* cancels the operation before the next data group is read: once Enter was pressed
\* between two files no further APDU is sent. (An exchange is one step, so nothing
\* can take effect in the middle of it.)
C27_KeypressCancels ==
    keypress.pressed => Len(apdus) = keypress.sent

\* the EXTERNAL AUTHENTICATE exchanges of the run that emrtd_do_bac accepted
BacDoneAt == {j \in DOMAIN apdus : apdus[j].ins = "EXTERNAL AUTHENTICATE" /\ apdus[j].res = "ok"}

\* C28: no secure-messaging SELECT or READ BINARY is sent before a BAC handshake has
\* completed successfully in the same run; the EF_CardAccess attempt of dumpHF_EMRTD
\* uses plain commands only; and after authentication the file commands use secure
\* messaging iff BAC was found to be enforced.
C28_SecureOnlyAfterBac ==
    \A i \in DOMAIN apdus :
        /\ apdus[i].sm => \E j \in BacDoneAt : j < i
        /\ apdus[i].st = "cardaccess" => ~apdus[i].sm
        /\ (apdus[i].st \in {"efcom", "sod", "loop"} /\ IsFileApdu(apdus[i]))
            => (apdus[i].sm <=> BAC)

C28_Witness ==
    /\ op = "dump"
    /\ \E i, j, k \in DOMAIN apdus :
        /\ apdus[i].st = "cardaccess" /\ apdus[i].ins = "READ BINARY"
        /\ j \in BacDoneAt
        /\ j < k
        /\ apdus[k].sm /\ apdus[k].ins = "READ BINARY" /\ apdus[k].res = "ok"

\* the APDUs emrtd_do_auth has sent before it calls emrtd_do_bac
AuthProbes == {i \in DOMAIN apdus : apdus[i].st = "auth" /\ ~apdus[i].sm /\ IsFileApdu(apdus[i])}

\* the plain SELECT of EF_COM failed, or a plain READ BINARY of EF_DG1 failed
ProbeFailed ==
    \E i \in AuthProbes :
        /\ apdus[i].res # "ok"
        /\ \/ apdus[i].ins = "SELECT" /\ apdus[i].fid = dg_table[EF_COM].fileid
           \/ apdus[i].ins = "READ BINARY"

\* GET CHALLENGE or EXTERNAL AUTHENTICATE was sent
BacApdus == {i \in DOMAIN apdus : apdus[i].ins \in {"GET CHALLENGE", "EXTERNAL AUTHENTICATE"}}

\* C29: emrtd_do_auth marks BAC as enforced iff the plain SELECT of EF_COM fails or the
\* plain read of EF_DG1 that follows fails; with BAC enforced and no MRZ data it returns
\* failure without sending GET CHALLENGE; with BAC not enforced it sends neither
\* GET CHALLENGE nor EXTERNAL AUTHENTICATE and leaves ssc, ks_enc and ks_mac as they were.
C29_BacEnforcedIffProbeFails ==
    /\ BAC <=> ProbeFailed
    /\ (BAC /\ ~BAC_available) => (BacApdus = {} /\ stage = "done" /\ ret = "PM3_ESOFT")
    /\ ~BAC => (BacApdus = {} /\ ssc = Zeros(8) /\ ks_enc = ZeroKey /\ ks_mac = ZeroKey)

C29_Witness ==
    /\ BAC /\ ~BAC_available
    /\ stage = "done"
    /\ \E i, j \in AuthProbes :
        /\ apdus[i].ins = "SELECT" /\ apdus[i].fid = dg_table[EF_COM].fileid
        /\ apdus[i].res = "ok"
        /\ apdus[j].ins = "READ BINARY" /\ apdus[j].res # "ok"

\* a run without BAC that went on to read files after emrtd_do_auth
C29_NotEnforcedSeen ==
    /\ ~BAC
    /\ stage = "loop"
    /\ \E i \in DOMAIN apdus : apdus[i].st = "loop" /\ apdus[i].res = "ok"

C30_RightMacSeen ==
    /\ fnOut # <<>>
    /\ MacRight(emrtd_deskey(KseedMrz, KMAC_type), fnIn.response)
    /\ fnOut[1].ok

\* C31: emrtd_read_file never stores more than EMRTD_MAX_FILE_SIZE bytes into its file
\* buffer: for every length the probe declares, the bytes written stay within the
\* buffer, or the read fails before it writes past it.
C31_ReadFitsBuffer == fnOut # <<>> => fnOut[1].written <= EMRTD_MAX_FILE_SIZE

\* a file that fills the buffer to its last byte is read to the end
C31_FullBufferSeen ==
    /\ fnOut # <<>>
    /\ fnOut[1].result = "true"
    /\ fnOut[1].written = EMRTD_MAX_FILE_SIZE

\* the accesses to dg_hashes made so far
TableAccesses == {fnOut[i].acc[j] : <<i, j>> \in {x \in (DOMAIN fnOut) \X (1..4) : x[2] <= Len(fnOut[x[1]].acc)}}

\* C32: every write of a parsed hash by emrtd_parse_ef_sod_hashes, at byte offset
\* id * 64, and every read of dg_hashes[dg->dgnum] by the info loop stays inside the
\* 16 x 64 bytes of the hash table.
C32_HashTableAccessInside == \A a \in TableAccesses : a.at + a.len <= DgHashesSize

\* a hash written to and read from the last row of the table
C32_LastRowSeen ==
    /\ Len(fnOut) = 2
    /\ fnOut[1].acc = <<[at |-> 15 * 64, len |-> 64]>>
    /\ fnOut[2].acc = <<[at |-> 15 * 64, len |-> 20]>>

\* a read behind the table although every write was inside it
C32_ReadOutsideSeen ==
    /\ Len(fnOut) = 2
    /\ \A j \in DOMAIN fnOut[1].acc : fnOut[1].acc[j].at + fnOut[1].acc[j].len <= DgHashesSize
    /\ \E j \in DOMAIN fnOut[2].acc : fnOut[2].acc[j].at + fnOut[2].acc[j].len > DgHashesSize

\* C33: every call of retail_mac passes an input whose padded length fits its 256-byte
\* message buffer, the calls of emrtd_check_cc on card-supplied responses included.
C33_MacInputFits == fnOut # <<>> => fnOut[1].blocksize <= MessageSize

\* the longest response whose MAC input still fits: the buffer is filled to the end
C33_FullMessageSeen == fnOut # <<>> /\ fnOut[1].blocksize = MessageSize

\* C34: a secure-messaging response shorter than 8 bytes is rejected by emrtd_check_cc
\* as an integrity failure, and the check never compares bytes located before the
\* start of the response buffer.
C34_ShortResponseRejected ==
    Len(fnOut) = 2 => /\ fnOut[2].from >= 0
                      /\ Len(fnIn.rapdu) < 8 => ~fnOut[2].ok

\* a response of DO'99' and MAC is compared from the byte behind the DO'99'
C34_MacComparedSeen ==
    /\ Len(fnOut) = 2
    /\ fnIn.rapdu = DoBytes(153, 2) \o Zeros(8)
    /\ fnOut[2].from = 4

\* C35: if emrtd_ef_sod_extract_signatures cannot find one of the nested EF_SOD
\* elements, emrtd_parse_ef_sod_hashes returns a value its callers tell from success,
\* without writing any hash, and the callers report that the hash list could not be
\* read.
C35_ExtractFailureReported ==
    (fnOut # <<>> /\ fnIn.missing # 0)
        => /\ fnOut[1].reported
           /\ fnOut[1].writes = <<>>

\* the part of it that the code keeps: no hash is written from such a file
C35_NothingWritten == (fnOut # <<>> /\ fnIn.missing # 0) => fnOut[1].writes = <<>>

\* a complete EF_SOD is parsed, its hashes are written and nothing is reported
C35_CompleteSeen ==
    /\ Len(fnOut) = 2
    /\ fnIn.missing = 0
    /\ fnOut[1].res = "PM3_SUCCESS" /\ ~fnOut[1].reported
    /\ Len(fnOut[1].writes) = 3
    /\ fnOut[2].passed

\* the answer begins with a DO'87' whose padding indicator is 01
BeginsWithDo87(rapdu) ==
    /\ Len(rapdu.dos) >= 1
    /\ rapdu.dos[1].tag = 135
    /\ rapdu.dos[1].val = <<1>>

\* C36: _emrtd_secure_read_binary_decrypt returns plaintext only when the MAC-verified
\* answer begins with a DO'87' (tag 87, padding indicator 01), whose body it decrypts;
\* a MAC-valid answer without a DO'87' yields failure, not decrypted output.
C36_PlaintextOnlyFromDo87 ==
    (fnOut # <<>> /\ fnOut[1].ok) => BeginsWithDo87(fnIn.rapdu)

\* the part of it that the code keeps: nothing is returned unless the MAC verified
C36_OnlyAfterMac == (fnOut # <<>> /\ fnOut[1].ok) => fnOut[1].sm.ok

\* a MAC-verified answer with DO'87' gives the bytes the card encrypted
C36_DecryptedSeen ==
    /\ fnOut # <<>>
    /\ fnOut[1].ok
    /\ BeginsWithDo87(fnIn.rapdu)
    /\ fnOut[1].dataout = [k \in 1..fnIn.bytes_to_read |-> k]

\* C37: every terminating path of dumpHF_EMRTD and infoHF_EMRTD (connect failure,
\* authentication failure, EF_COM or EF_SOD read failure, file-list parse failure,
\* normal completion) calls DropField before it returns: the RF field is never left on
\* when the command has ended.
C37_FieldDroppedAtReturn == (op \in {"dump", "info"} /\ Returned) => ~field

\* a command that completed, with the field still on after its last exchange
C37_Witness ==
    /\ op \in {"dump", "info"}
    /\ Returned
    /\ ret = "PM3_SUCCESS"
    /\ apdus # <<>>
    /\ apdus[Len(apdus)].res = "ok"
    /\ ~field

\* a command that ended on a failure other than a lost exchange
C37_FailureSeen ==
    /\ op \in {"dump", "info"}
    /\ Returned
    /\ ret = "PM3_ESOFT"
    /\ apdus # <<>>
    /\ apdus[Len(apdus)].res \in {"sw", "mac", "ok"}

\* the tags the card's EF_COM lists (60 L 5C n <tags>), and EF_SOD behind them
ListedThenSod == SubSeq(card.efcom, 5, Len(card.efcom)) \o <<119>>

\* tag t belongs to a registry entry that needs neither PACE nor EAC
Dumpable(t) ==
    \E d \in DOMAIN dg_table : dg_table[d].tag = t /\ ~dg_table[d].pace /\ ~dg_table[d].eac

FileidOfTag(t) == dg_table[CHOOSE d \in DOMAIN dg_table : dg_table[d].tag = t].fileid

\* the file identifiers the dump is to select after EF_COM, in order
DumpOrder ==
    LET tags == SelectSeq(ListedThenSod, Dumpable)
    IN  [i \in 1..Len(tags) |-> FileidOfTag(tags[i])]

IsLoopSelect(a) == a.st = "loop" /\ a.ins = "SELECT"

\* the file identifiers selected in the loop so far
LoopFids ==
    LET sel == SelectSeq(apdus, IsLoopSelect)
    IN  [i \in 1..Len(sel) |-> sel[i].fid]

\* C38: after authentication dumpHF_EMRTD reads EF_COM first, then the data groups in
\* the order of EF_COM's tag list, then EF_SOD last; a listed tag is dumped iff it maps
\* to a registry entry with neither pace nor eac set, and an unknown tag is skipped
\* without ending the loop.
C38_DumpOrder ==
    (op = "dump" /\ LoopFids # <<>>)
        => /\ Len(LoopFids) <= Len(DumpOrder)
           /\ LoopFids = SubSeq(DumpOrder, 1, Len(LoopFids))
           /\ (Returned /\ ret = "PM3_SUCCESS") => LoopFids = DumpOrder
           /\ \A i \in DOMAIN apdus :
                 apdus[i].st = "loop"
                    => /\ \E j \in 1..(i - 1) :
                            /\ apdus[j].st = "efcom" /\ apdus[j].ins = "SELECT"
                            /\ apdus[j].fid = dg_table[EF_COM].fileid
                       /\ \A j \in DOMAIN apdus : j > i => apdus[j].st = "loop"

C38_Witness ==
    /\ op = "dump"
    /\ Returned /\ ret = "PM3_SUCCESS"
    /\ ListedThenSod = <<97, 66, 117, 119>>
    /\ LoopFids = <<"0101", "0102", "011D">>

\* C39: each file identifier string in dg_table identifies exactly one registry entry:
\* for every index i, emrtd_fileid_to_dg(dg_table[i].fileid) returns entry i, so EF_SOD
\* and EF_CardSecurity are reachable as distinct entries by file identifier.
C39_FileidFindsOwnEntry ==
    fnOut # <<>>
        => \A i \in DOMAIN dg_table : fnIn.file = dg_table[i].fileid => fnOut[1] = i

\* what the scan does give: the first entry with that identifier, NULL when none has it
C39_FirstEntryFound ==
    fnOut # <<>>
        => IF \E i \in DOMAIN dg_table : dg_table[i].fileid = fnIn.file
           THEN /\ fnOut[1] \in DOMAIN dg_table
                /\ dg_table[fnOut[1]].fileid = fnIn.file
                /\ \A j \in 1..(fnOut[1] - 1) : dg_table[j].fileid # fnIn.file
           ELSE fnOut[1] = NoDg

C39_SodSeen == fnOut # <<>> /\ fnIn.file = "011D" /\ fnOut[1] = EF_SOD

\* C40: for every buffer content and length, the scanning loops of
\* emrtd_lds_get_data_by_tag and emrtd_parse_ef_sod_hashes terminate: each iteration
\* advances the offset by at least one byte, also when the length byte is an unsupported
\* form (above 0x83) for which both length helpers return 0.
C40_ScansTerminate == (fnOut # <<>>) ~> (fnOut # <<>> /\ fnOut[1].pc = "done")

\* an iteration that stays in the loop leaves the offset at least one byte further
C40_OffsetAdvances ==
    [][(fnOut # <<>> /\ fnOut' # <<>> /\ fnOut'[1].pc = "loop")
          => fnOut'[1].offset >= fnOut[1].offset + 1]_vars

\* the hash list 84 84 84: two iterations of one byte each and one over the last
\* byte and the 00 behind it, then the loop is left
C40_Witness ==
    /\ fnOut # <<>>
    /\ fnIn.loop = "hash"
    /\ fnIn.datainlen = 3
    /\ SubSeq(fnIn.datain, 1, 3) = <<132, 132, 132>>
    /\ fnOut[1].pc = "done"
    /\ fnOut[1].unsupported
    /\ fnOut[1].offset = 4

C40_LdsUnsupportedSeen ==
    /\ fnOut # <<>>
    /\ fnIn.loop = "lds"
    /\ fnOut[1].pc = "done"
    /\ fnOut[1].unsupported
    /\ fnOut[1].offset >= fnIn.datainlen

====
